---- MODULE Spec2Model ----
(***************************************************************************)
(* ElevenLabs MCP server for MIA: the entry point (src/__init__.py), the   *)
(* server function serve() with its list_tools / call_tool handlers        *)
(* (src/mcp_server.py) and the voice client and the profile store          *)
(* (src/elevenlabs_client.py).                                             *)
(*                                                                         *)
(* The specifications share the variables:                                 *)
(*   Spec         main() and serve() from their first line, as written;    *)
(*   SpecSession  the body of serve() from the `async with` of line 150    *)
(*                on, over a voice client, a profile store and a bridge    *)
(*                that have been constructed: the handlers, the protocol   *)
(*                loop and the shutdown;                                   *)
(*   SpecPipelined  the same body under a host that sends a request       *)
(*                before the previous one is answered;                     *)
(*   SpecStore    a VoiceProfileManager used directly, as the tests do;    *)
(*   SpecOpen     the same store from its construction on;                 *)
(*   SpecClients  an ElevenLabsClient and a MIAVoiceIntegration used       *)
(*                directly, one operation after the other.                 *)
(*                                                                         *)
(* Conventions.  An Optional value is a sequence: <<>> is None, <<v>> is   *)
(* v.  A Python dict is the sequence of its <<key, value>> items in        *)
(* insertion order.  A Python str built by an f-string is the sequence of  *)
(* its pieces.  A float is written in tenths (0.5 is 5).                   *)
(***************************************************************************)
EXTENDS Integers, Sequences, FiniteSets, TLC

\* ------------------------------------------------------------------ bounds
MaxNames == 2        \* profile names in play
MaxCalls == 2        \* requests (call_tool, list_tools) accepted in one session
MaxUpdates == 2      \* create/delete operations issued in one SpecStore run
MaxRequests == 2     \* operations of the two HTTP clients in one SpecClients run

\* --------------------------------------------------------------- constants
DefaultStability == 5
DefaultSimilarityBoost == 5
DefaultPort == 8000

DefaultModel == "eleven_monolingual_v1"
DefaultHost == "localhost"
DefaultProfile == "default"

NamePool == <<"default", "narrator", "missing", "extra">>
Names == {NamePool[i] : i \in 1..MaxNames}
VoiceIds == {"voice-abc", "voice-123"}
\* readings of the event loop clock (asyncio.get_event_loop().time())
Times == {0, 1}
\* the readings taken during a session: later than those of earlier runs
SessionTimes == {1}
Hosts == {DefaultHost, "mia.local"}
Ports == {DefaultPort, 8080}

None == <<>>
Some(v) == <<v>>

\* the three ways a key can be (un)available: None, the empty string, a key
KeyValues == {None, Some(""), Some("sk-1")}

\* --------------------------------------------------------------- variables
VARIABLES
    pc,            \* position of main()/serve()
    session,       \* lifecycle state of the protocol session
    cause,         \* what took the session out of Serving
    key_arg,       \* --elevenlabs-api-key
    key_env,       \* ELEVENLABS_API_KEY
    mia_host,      \* --mia-host
    mia_port,      \* --mia-port
    dir_ok,        \* whether config_dir.mkdir(exist_ok=True) succeeds
    objs,          \* the objects serve() constructs and their HTTP clients
    profiles,      \* VoiceProfileManager.profiles
    file,          \* voice_profiles.json
    raised,        \* the exception that left serve(), if any
    exit_code,     \* exit status of the process, once it has one
    lanes,         \* the call slots the host uses
    calls,         \* the call_tool invocations in flight, per slot
    tmpfiles,      \* the temporary audio files on disk
    served,        \* per answered call, whether its except clause ran
    ops            \* SpecStore: the store operations issued, latest last

vars == <<pc, session, cause, key_arg, key_env, mia_host, mia_port, dir_ok, objs,
          profiles, file, raised, exit_code, lanes, calls, tmpfiles, served, ops>>

inputs == <<key_arg, key_env, mia_host, mia_port, dir_ok>>

\* ------------------------------------------------------------ Python dicts
DictHas(d, k) == \E i \in 1..Len(d) : d[i][1] = k

DictIndex(d, k) == CHOOSE i \in 1..Len(d) : d[i][1] = k

\* dict.get(k): the value, or None
DictGet(d, k) == IF DictHas(d, k) THEN Some(d[DictIndex(d, k)][2]) ELSE None

\* d[k] = v: an existing key keeps its position, a new key goes last
DictSet(d, k, v) ==
    IF DictHas(d, k)
    THEN [i \in 1..Len(d) |-> IF d[i][1] = k THEN <<k, v>> ELSE d[i]]
    ELSE Append(d, <<k, v>>)

\* del d[k]
DictDel(d, k) == SelectSeq(d, LAMBDA item : item[1] # k)

\* list(d.keys())
DictKeys(d) == [i \in 1..Len(d) |-> d[i][1]]

\* -------------------------------------------------------------- exceptions
\* the classes `except Exception` catches, among those the handlers can meet
ExceptionClasses == {"KeyError", "ValueError", "TypeError", "OSError", "InvalidURL"}

\* `except ValueError` in place of `except Exception`
IsException_OnlyValueError(type) == type = "ValueError"

\* isinstance(e, Exception)
IsException(type) == type \in ExceptionClasses

\* ------------------------------------------------------ voice_profiles.json
FileMissing == [kind |-> "missing", members |-> <<>>]
FileGarbage == [kind |-> "garbage", members |-> <<>>]
\* a file that open() cannot read
FileUnreadable == [kind |-> "unreadable", members |-> <<>>]
\* a file that holds JSON which is no object: the array []
FileArray == [kind |-> "array", members |-> <<>>]

\* the Python list [] that json.load returns for FileArray, written as a
\* sequence no dict can be (its one item has the key "[]", no profile name)
JsonArray == <<<<"[]", [voice_id |-> "", settings |-> <<>>, created_at |-> 0]>>>>

\* isinstance(self.profiles, dict)
IsMapping(d) == d # JsonArray

\* json.dump(self.profiles, f): one member per profile, in dict order
JsonDump(d) ==
    [kind |-> "json",
     members |-> [i \in 1..Len(d) |->
                    <<d[i][1], d[i][2].voice_id, d[i][2].settings, d[i][2].created_at>>]]

\* json.load(f) of a document json.dump wrote
JsonLoad(f) ==
    [i \in 1..Len(f.members) |->
        <<f.members[i][1],
          [voice_id |-> f.members[i][2], settings |-> f.members[i][3],
           created_at |-> f.members[i][4]]>>]

\* VoiceProfileManager._load_profiles
LoadProfiles(f) ==
    IF f.kind = "missing" THEN <<>>
    ELSE IF f.kind \in {"garbage", "unreadable"} THEN <<>>
    ELSE IF f.kind = "array" THEN JsonArray
    ELSE JsonLoad(f)

\* how a write of the file can go: it succeeds, open() fails, or the write
\* fails after open(..., 'w') has truncated the file
WriteOutcomes == {"ok", "open_fails", "write_fails"}

\* a _save_profiles that writes the latest profile only
SaveProfiles_Incremental(d, f, w) ==
    IF w = "ok" THEN JsonDump(IF Len(d) = 0 THEN d ELSE <<d[Len(d)]>>)
    ELSE IF w = "open_fails" THEN f
    ELSE FileGarbage

\* VoiceProfileManager._save_profiles: the file after the attempt
SaveProfiles(d, f, w) ==
    IF w = "ok" THEN JsonDump(d)
    ELSE IF w = "open_fails" THEN f
    ELSE FileGarbage

\* what open() or json.dump() raise inside the try of _save_profiles
SaveError(w) ==
    IF w = "open_fails" THEN [type |-> "OSError", msg |-> <<"Permission denied">>]
    ELSE [type |-> "OSError", msg |-> <<"No space left on device">>]

\* _save_profiles without its except clause
SaveProfilesRaises_Unguarded(w) ==
    IF w = "ok" THEN None ELSE Some(SaveError(w))

\* what _save_profiles raises to create_profile and delete_profile: the
\* `except Exception` of line 141 catches what the write raises
SaveProfilesRaises(w) ==
    IF w = "ok" \/ IsException(SaveError(w).type) THEN None ELSE Some(SaveError(w))

\* create_profile that leaves an existing profile alone (dict.setdefault)
CreateProfile_KeepExisting(d, name, voice_id, settings, now) ==
    IF DictHas(d, name) THEN d
    ELSE DictSet(d, name, [voice_id |-> voice_id, settings |-> settings, created_at |-> now])

\* create_profile that updates the settings of an existing profile key by key
CreateProfile_Merge(d, name, voice_id, settings, now) ==
    LET old == DictGet(d, name)
        merged == IF old = None \/ settings # <<>> THEN settings ELSE old[1].settings
    IN  DictSet(d, name, [voice_id |-> voice_id, settings |-> merged, created_at |-> now])

\* create_profile that starts a new dict with the one profile
CreateProfile_Fresh(d, name, voice_id, settings, now) ==
    <<<<name, [voice_id |-> voice_id, settings |-> settings, created_at |-> now]>>>>

\* create_profile that updates an existing profile field by field and is
\* interrupted after the voice id
CreateProfile_VoiceIdFirst(d, name, voice_id, settings, now) ==
    IF DictHas(d, name)
    THEN DictSet(d, name, [DictGet(d, name)[1] EXCEPT !.voice_id = voice_id])
    ELSE DictSet(d, name, [voice_id |-> voice_id, settings |-> settings, created_at |-> now])

\* VoiceProfileManager.create_profile: the dict after the assignment
CreateProfile(d, name, voice_id, settings, now) ==
    DictSet(d, name, [voice_id |-> voice_id, settings |-> settings, created_at |-> now])

\* self.profiles.get / self.profiles.keys: a list has neither
Attribute(d, attr) ==
    IF IsMapping(d) THEN [exc |-> None]
    ELSE [exc |-> Some([type |-> "AttributeError",
                        msg |-> <<"'list' object has no attribute '", attr, "'">>])]

\* self.profiles[name] = ...: a list takes no str index
ItemAssignment(d) ==
    IF IsMapping(d) THEN [exc |-> None]
    ELSE [exc |-> Some([type |-> "TypeError",
                        msg |-> <<"list indices must be integers or slices, not str">>])]

\* VoiceProfileManager.get_profile
GetProfile(d, name) == IF IsMapping(d) THEN DictGet(d, name) ELSE None

\* VoiceProfileManager.list_profiles
ListProfiles(d) == IF IsMapping(d) THEN DictKeys(d) ELSE <<>>

\* delete_profile that empties the store (dict.clear())
DeleteProfile_Clear(d, name) == IF DictHas(d, name) THEN <<>> ELSE d

\* VoiceProfileManager.delete_profile: the dict afterwards
DeleteProfile(d, name) == IF DictHas(d, name) THEN DictDel(d, name) ELSE d

\* a delete_profile that saves whether or not it found the name
DeleteFile_AlwaysSaves(d, name, f, w) == SaveProfiles(DeleteProfile(d, name), f, w)

\* VoiceProfileManager.delete_profile: the file afterwards; _save_profiles is
\* called inside `if name in self.profiles` only
DeleteFile(d, name, f, w) ==
    IF DictHas(d, name) THEN SaveProfiles(DeleteProfile(d, name), f, w) ELSE f

\* settings a caller of the store may pass ({} is what the tests pass)
MkSettings(st, sb) == [stability |-> st, similarity_boost |-> sb]
StoreSettings == {<<>>, MkSettings(7, 8)}

\* documents an earlier run of the program can have left in the file
SeedProfile == [voice_id |-> "voice-abc", settings |-> MkSettings(7, 8), created_at |-> 0]
SeedDicts == {<<>>} \cup {<<<<n, SeedProfile>>>> : n \in Names}

FileStates == {FileMissing, FileGarbage} \cup {JsonDump(d) : d \in SeedDicts}


\* ------------------------------------------------------- main() and serve()
\* `is not None` in place of truthiness
Truthy_NotNone(v) == v # None

\* bool(v) of an Optional[str]
Truthy(v) == v # None /\ v # Some("")

\* Python's `a or b`
Or(a, b) == IF Truthy(a) THEN a ELSE b

Exc(type, msg) == Some([type |-> type, msg |-> msg])

NoObjs == [client |-> "none", store |-> "none", bridge |-> "none", base_url |-> None]

NoCall == [pc |-> "idle"]

\* MIAVoiceIntegration.__init__(self, mia_host, mia_port): its parameter names
BridgeInitParams == {"mia_host", "mia_port"}

\* MIAVoiceIntegration(host=mia_host, port=mia_port): the keywords serve() passes
BridgeCallKeywords == {"host", "port"}

\* f"http://{mia_host}:{mia_port}"
BaseUrl(host, port) == <<"http://", host, ":", ToString(port)>>

Init ==
    /\ pc = "client"
    /\ session = "Uninitialized"
    /\ cause = "none"
    /\ key_arg \in KeyValues
    /\ key_env \in KeyValues
    /\ mia_host \in Hosts
    /\ mia_port \in Ports
    /\ dir_ok \in BOOLEAN
    /\ objs = NoObjs
    /\ profiles = <<>>
    /\ file \in FileStates
    /\ raised = None
    /\ exit_code = None
    /\ lanes = {}
    /\ calls = <<>>
    /\ tmpfiles = {}
    /\ served = <<>>
    /\ ops = <<>>

\* serve() line 146: ElevenLabsClient(api_key=elevenlabs_api_key)
NewElevenLabsClient ==
    /\ pc = "client"
    /\ LET api_key == Or(key_arg, key_env) IN
         IF ~Truthy(api_key)
         THEN /\ raised' = Exc("ValueError", <<"ElevenLabs API key not provided">>)
              /\ pc' = "main"
              /\ UNCHANGED objs
         ELSE /\ objs' = [objs EXCEPT !.client = "open"]
              /\ pc' = "store"
              /\ UNCHANGED raised
    /\ UNCHANGED <<session, cause, inputs, profiles, file, exit_code, lanes, calls,
                   tmpfiles, served, ops>>

\* serve() line 147: VoiceProfileManager()
NewVoiceProfileManager ==
    /\ pc = "store"
    /\ IF ~dir_ok
       THEN /\ raised' = Exc("OSError", <<"mkdir">>)
            /\ pc' = "main"
            /\ UNCHANGED <<objs, profiles>>
       ELSE /\ profiles' = LoadProfiles(file)
            /\ objs' = [objs EXCEPT !.store = "built"]
            /\ pc' = "bridge"
            /\ UNCHANGED raised
    /\ UNCHANGED <<session, cause, inputs, file, exit_code, lanes, calls, tmpfiles,
                   served, ops>>

\* serve() line 148: MIAVoiceIntegration(host=mia_host, port=mia_port)
NewMIAVoiceIntegration ==
    /\ pc = "bridge"
    /\ IF BridgeCallKeywords \subseteq BridgeInitParams
       THEN /\ objs' = [objs EXCEPT !.bridge = "open",
                                    !.base_url = Some(BaseUrl(mia_host, mia_port))]
            /\ pc' = "with"
            /\ UNCHANGED raised
       ELSE /\ raised' = Exc("TypeError", <<"unexpected keyword argument">>)
            /\ pc' = "main"
            /\ UNCHANGED objs
    /\ UNCHANGED <<session, cause, inputs, profiles, file, exit_code, lanes, calls,
                   tmpfiles, served, ops>>

\* main() lines 37-47, once asyncio.run(serve(...)) has returned or raised
MainExit ==
    /\ pc = "main"
    /\ pc' = "exit"
    /\ exit_code' =
         IF raised = None THEN Some([code |-> 0, printed |-> <<>>])
         ELSE IF raised[1].type = "KeyboardInterrupt"
         THEN Some([code |-> 0, printed |-> <<"\nShutting down ElevenLabs MCP server...">>])
         ELSE Some([code |-> 1,
                    printed |-> <<"Error running ElevenLabs MCP server: ">> \o raised[1].msg])
    /\ UNCHANGED <<session, cause, inputs, objs, profiles, file, raised, lanes, calls,
                   tmpfiles, served, ops>>

Next ==
    \/ NewElevenLabsClient
    \/ NewVoiceProfileManager
    \/ NewMIAVoiceIntegration
    \/ MainExit

Spec == Init /\ [][Next]_vars


\* ------------------------------------------- the profile store on its own
\* ops: how many mutations were issued, the latest mutation (upd) with the
\* dict it found (prior), the latest read issued since that mutation, and the
\* names the store was loaded with or has been given by create_profile (known),
\* and whether a write of the file failed before the latest mutation (lost).
\* A mutation is recorded with how its write went (w) and with the exception
\* it raised to its caller (exc)
NoOps == [count |-> 0, upd |-> None, prior |-> <<>>, read |-> None, known |-> {},
          lost |-> FALSE]

\* VoiceProfileManager(config_dir=tmp_path) on any state of the file
InitStore ==
    /\ pc = "store_api"
    /\ session = "Uninitialized"
    /\ cause = "none"
    /\ key_arg = None
    /\ key_env = None
    /\ mia_host = DefaultHost
    /\ mia_port = DefaultPort
    /\ dir_ok = TRUE
    /\ objs = [NoObjs EXCEPT !.store = "built"]
    /\ file \in FileStates
    /\ profiles = LoadProfiles(file)
    /\ raised = None
    /\ exit_code = None
    /\ lanes = {}
    /\ calls = <<>>
    /\ tmpfiles = {}
    /\ served = <<>>
    /\ ops = [NoOps EXCEPT !.known = {n \in Names : DictHas(profiles, n)}]

StoreFrame ==
    UNCHANGED <<pc, session, cause, inputs, objs, raised, exit_code, lanes, calls,
                tmpfiles, served>>

\* create_profile(name, voice_id, settings), lines 144-151
StoreCreate(name, voice_id, settings, now, w) ==
    /\ pc = "store_api"
    /\ ops.count < MaxUpdates
    /\ profiles' = IF IsMapping(profiles)
                   THEN CreateProfile(profiles, name, voice_id, settings, now)
                   ELSE profiles
    /\ file' = IF IsMapping(profiles) THEN SaveProfiles(profiles', file, w) ELSE file
    /\ ops' = [count |-> ops.count + 1,
               upd |-> Some([op |-> "create", name |-> name, voice_id |-> voice_id,
                             settings |-> settings,
                             w |-> IF IsMapping(profiles) THEN w ELSE "ok",
                             exc |-> IF IsMapping(profiles) THEN SaveProfilesRaises(w)
                                     ELSE ItemAssignment(profiles).exc]),
               prior |-> profiles,
               read |-> None,
               known |-> ops.known \cup {name},
               lost |-> ops.lost \/ (ops.upd # None /\ ops.upd[1].w # "ok")]
    /\ StoreFrame

\* get_profile(name), lines 153-155
StoreGet(name) ==
    /\ pc = "store_api"
    /\ ops' = [ops EXCEPT !.read = Some([op |-> "get", name |-> name,
                                         ret_profile |-> GetProfile(profiles, name),
                                         ret_names |-> <<>>,
                                         exc |-> Attribute(profiles, "get").exc])]
    /\ UNCHANGED <<profiles, file>>
    /\ StoreFrame

\* list_profiles(), lines 157-159
StoreList ==
    /\ pc = "store_api"
    /\ ops' = [ops EXCEPT !.read = Some([op |-> "list", name |-> "",
                                         ret_profile |-> None,
                                         ret_names |-> ListProfiles(profiles),
                                         exc |-> Attribute(profiles, "keys").exc])]
    /\ UNCHANGED <<profiles, file>>
    /\ StoreFrame

\* delete_profile(name), lines 161-165
StoreDelete(name, w) ==
    /\ pc = "store_api"
    /\ ops.count < MaxUpdates
    /\ profiles' = DeleteProfile(profiles, name)
    /\ file' = DeleteFile(profiles, name, file, w)
    /\ ops' = [count |-> ops.count + 1,
               upd |-> Some([op |-> "delete", name |-> name, voice_id |-> "",
                             settings |-> <<>>,
                             w |-> IF DictHas(profiles, name) THEN w ELSE "ok",
                             exc |-> IF DictHas(profiles, name)
                                     THEN SaveProfilesRaises(w) ELSE None]),
               prior |-> profiles,
               read |-> None,
               known |-> ops.known,
               lost |-> ops.lost \/ (ops.upd # None /\ ops.upd[1].w # "ok")]
    /\ StoreFrame

NextStore ==
    \/ \E name \in Names, voice_id \in VoiceIds, settings \in StoreSettings,
          now \in Times, w \in WriteOutcomes :
            StoreCreate(name, voice_id, settings, now, w)
    \/ \E name \in Names : StoreGet(name)
    \/ StoreList
    \/ \E name \in Names, w \in WriteOutcomes : StoreDelete(name, w)

SpecStore == InitStore /\ [][NextStore]_vars


\* --------------------------- the profile store from its construction on
\* what a user or another program can have left where the file is expected
OpenFileStates == FileStates \cup {FileUnreadable, FileArray}

\* before VoiceProfileManager(config_dir): the directory can or cannot be
\* made (its parent is missing, or a regular file has its name), and only a
\* directory that can holds a file
InitOpen ==
    /\ pc = "store_new"
    /\ session = "Uninitialized"
    /\ cause = "none"
    /\ key_arg = None
    /\ key_env = None
    /\ mia_host = DefaultHost
    /\ mia_port = DefaultPort
    /\ dir_ok \in BOOLEAN
    /\ objs = NoObjs
    /\ file \in IF dir_ok THEN OpenFileStates ELSE {FileMissing}
    /\ profiles = <<>>
    /\ raised = None
    /\ exit_code = None
    /\ lanes = {}
    /\ calls = <<>>
    /\ tmpfiles = {}
    /\ served = <<>>
    /\ ops = NoOps

\* VoiceProfileManager.__init__, lines 118-122: mkdir is outside any try
OpenStore ==
    /\ pc = "store_new"
    /\ IF ~dir_ok
       THEN /\ raised' = Exc("OSError", <<"mkdir">>)
            /\ pc' = "store_failed"
            /\ UNCHANGED <<objs, profiles, ops>>
       ELSE /\ profiles' = LoadProfiles(file)
            /\ objs' = [objs EXCEPT !.store = "built"]
            /\ pc' = "store_api"
            /\ ops' = [NoOps EXCEPT !.known = {n \in Names : DictHas(profiles', n)}]
            /\ UNCHANGED raised
    /\ UNCHANGED <<session, cause, inputs, file, exit_code, lanes, calls, tmpfiles,
                   served>>

NextOpen ==
    \/ OpenStore
    \/ NextStore

SpecOpen == InitOpen /\ [][NextOpen]_vars


\* ----------------------------------------------------- the tool catalog
\* class ElevenLabsTools, in the order list_tools() returns the descriptors
ToolCatalog ==
    <<"elevenlabs_list_voices", "elevenlabs_get_voice_details",
      "elevenlabs_generate_speech", "elevenlabs_create_voice_profile",
      "elevenlabs_list_voice_profiles", "elevenlabs_generate_speech_from_profile",
      "mia_voice_command", "mia_get_status_voice">>

ToolNames == {ToolCatalog[i] : i \in 1..Len(ToolCatalog)}

\* names a host may send that the catalog does not hold
UnknownNames == {"elevenlabs_delete_voice_profile", ""}

\* the argument models, lines 31-77, as .schema() gives them: the properties
\* and those that are required, in the order of the catalog
Schemas ==
    <<[properties |-> {}, required |-> {}],
      [properties |-> {"voice_id"}, required |-> {"voice_id"}],
      [properties |-> {"text", "voice_id", "model_id", "stability", "similarity_boost"},
       required |-> {"text", "voice_id"}],
      [properties |-> {"name", "voice_id", "stability", "similarity_boost"},
       required |-> {"name", "voice_id"}],
      [properties |-> {}, required |-> {}],
      [properties |-> {"text", "profile_name"}, required |-> {"text", "profile_name"}],
      [properties |-> {"command", "voice_profile"}, required |-> {"command"}],
      [properties |-> {"voice_profile"}, required |-> {}]>>

Descriptions ==
    <<"List all available ElevenLabs voices",
      "Get detailed information about a specific voice",
      "Convert text to speech using ElevenLabs",
      "Create a reusable voice profile with specific settings",
      "List all saved voice profiles",
      "Generate speech using a saved voice profile",
      "Execute a voice command to control MIA IoT devices",
      "Get MIA system status with voice feedback">>

\* what list_tools() returns, lines 156-197
ToolDescriptors ==
    [i \in 1..Len(ToolCatalog) |->
        [name |-> ToolCatalog[i], description |-> Descriptions[i],
         inputSchema |-> Schemas[i]]]

\* a `match name` without its last case
MatchCases_NoStatus ==
    <<"elevenlabs_list_voices", "elevenlabs_get_voice_details",
      "elevenlabs_generate_speech", "elevenlabs_create_voice_profile",
      "elevenlabs_list_voice_profiles", "elevenlabs_generate_speech_from_profile",
      "mia_voice_command">>

\* the value patterns of `match name`, lines 205-363, in the order of the cases
MatchCases ==
    <<"elevenlabs_list_voices", "elevenlabs_get_voice_details",
      "elevenlabs_generate_speech", "elevenlabs_create_voice_profile",
      "elevenlabs_list_voice_profiles", "elevenlabs_generate_speech_from_profile",
      "mia_voice_command", "mia_get_status_voice">>

\* the case `match name` takes: the first whose pattern equals name, or 0 for
\* `case _`
Route(name) ==
    IF \E i \in 1..Len(MatchCases) : MatchCases[i] = name
    THEN CHOOSE i \in 1..Len(MatchCases) :
            MatchCases[i] = name /\ \A j \in 1..(i - 1) : MatchCases[j] # name
    ELSE 0

\* ------------------------------------------------------ values and results
Ret(v) == [ok |-> TRUE, val |-> v, exc |-> None]
Raise(type, msg) == [ok |-> FALSE, val |-> None, exc |-> Exc(type, msg)]

\* arguments[key]: the value, or KeyError(key)
Subscript(arguments, key) ==
    IF key \in DOMAIN arguments THEN Ret(arguments[key])
    ELSE Raise("KeyError", <<"'", key, "'">>)

\* arguments.get(key, default)
Get(arguments, key, default) ==
    IF key \in DOMAIN arguments THEN arguments[key] ELSE default

\* one use a call makes of a collaborator (a request to the voice API or to the
\* bridge, an operation of the store with what it returned), in order
Event(to, method, path, body) ==
    [to |-> to, method |-> method, path |-> path, body |-> body]

\* a call_tool invocation that has just been entered; audio is <<audio_data>>
\* once generate_speech has returned, path the temporary file the call made,
\* reply what the bridge operation returned (`result`, `status`)
NewCall(name, arguments) ==
    [pc |-> "run", tool |-> name, name |-> name, arguments |-> arguments,
     text |-> <<>>, subject |-> "", events |-> <<>>, result |-> None,
     excepted |-> FALSE, exc |-> None, audio |-> <<>>, path |-> None,
     reply |-> None]

\* return [TextContent(type="text", text=text)]
Return(call, text) ==
    [call EXCEPT !.pc = "done", !.result = Some([type |-> "text", text |-> text])]

\* f"Error executing {name}: {str(e)}", line 409
ErrorText(name, e) == <<"Error executing ", name, ": ">> \o e.msg

\* an except clause that logs and re-raises
Except_Reraise(call, e) == [call EXCEPT !.pc = "raised", !.exc = e]

\* the except clause of call_tool, lines 405-410; an exception it does not
\* catch leaves call_tool
Except(call, e) ==
    IF IsException(e[1].type)
    THEN [Return(call, ErrorText(call.name, e[1])) EXCEPT !.excepted = TRUE]
    ELSE [call EXCEPT !.pc = "raised", !.exc = e]

\* the call suspends on a request to a collaborator
Await(call, at, event) ==
    [call EXCEPT !.pc = at, !.events = Append(@, event)]

\* ------------------------------------------------- ElevenLabsClient, lines 43-92
\* what a request to the voice API can come to: a 2xx response, an
\* httpx.HTTPError (error status, transport failure, timeout), or an
\* exception that is no httpx.HTTPError
VoiceRecord == [name |-> "Rachel", voice_id |-> "voice-123", category |-> "premade"]
BareVoiceRecord == [name |-> "Adam", voice_id |-> "voice-abc"]
NamelessVoiceRecord == [voice_id |-> "voice-abc"]

VoicesResponses ==
    {[kind |-> "ok", json |-> Some([voices |-> <<VoiceRecord, BareVoiceRecord>>])],
     [kind |-> "ok", json |-> Some([voices |-> <<NamelessVoiceRecord>>])],
     [kind |-> "ok", json |-> Some(<<>>)],
     [kind |-> "http_error", json |-> None],
     [kind |-> "bad_json", json |-> None]}

VoiceResponses ==
    {[kind |-> "ok", json |-> Some(VoiceRecord)],
     [kind |-> "ok", json |-> Some(<<>>)],
     [kind |-> "http_error", json |-> None],
     [kind |-> "bad_json", json |-> None]}

AudioBytes == "ID3"
SpeechResponses ==
    {[kind |-> "ok", content |-> AudioBytes],
     [kind |-> "ok", content |-> ""],
     [kind |-> "http_error", content |-> ""],
     [kind |-> "other_error", content |-> ""]}

\* get_voices, lines 43-52
GetVoices(resp) ==
    IF resp.kind = "http_error" THEN Ret(<<>>)
    ELSE IF resp.kind = "bad_json" THEN Raise("ValueError", <<"Expecting value">>)
    ELSE Ret(IF "voices" \in DOMAIN resp.json[1] THEN resp.json[1].voices ELSE <<>>)

\* get_voice, lines 54-62
GetVoice(resp) ==
    IF resp.kind = "http_error" THEN Ret(None)
    ELSE IF resp.kind = "bad_json" THEN Raise("ValueError", <<"Expecting value">>)
    ELSE Ret(resp.json)

\* a body that always carries the default settings
SpeechPayload_DefaultsOnly(text, model_id, voice_settings) ==
    [text |-> text,
     model_id |-> model_id,
     voice_settings |-> MkSettings(DefaultStability, DefaultSimilarityBoost)]

\* the body generate_speech posts, lines 73-80
SpeechPayload(text, model_id, voice_settings) ==
    [text |-> text,
     model_id |-> model_id,
     voice_settings |-> IF voice_settings # None /\ voice_settings[1] # <<>>
                        THEN voice_settings[1]
                        ELSE MkSettings(DefaultStability, DefaultSimilarityBoost)]

\* the request generate_speech sends, lines 82-86
SpeechRequest(text, voice_id, model_id, voice_settings) ==
    Event("voice", "POST", <<"/v1/text-to-speech/", voice_id>>,
          Some(SpeechPayload(text, model_id, voice_settings)))

\* generate_speech once the response is in, lines 87-92: bytes or None
GenerateSpeech(resp) ==
    IF resp.kind = "http_error" THEN Ret(None)
    ELSE IF resp.kind = "other_error" THEN Raise("InvalidURL", <<"Invalid URL">>)
    ELSE Ret(Some(resp.content))

\* get_models, lines 94-102
ModelsResponses ==
    {[kind |-> "ok", json |-> Some(<<[model_id |-> DefaultModel]>>)],
     [kind |-> "ok", json |-> Some(<<>>)],
     [kind |-> "bad_json", json |-> None]}

\* get_models without its except clause
GetModels_Unguarded(resp) ==
    IF resp.kind = "http_error" THEN Raise("HTTPError", <<"request failed">>)
    ELSE IF resp.kind = "bad_json" THEN Raise("ValueError", <<"Expecting value">>)
    ELSE Ret(resp.json[1])

GetModels(resp) ==
    IF resp.kind = "http_error" THEN Ret(<<>>)
    ELSE IF resp.kind = "bad_json" THEN Raise("ValueError", <<"Expecting value">>)
    ELSE Ret(resp.json[1])

\* get_user_info, lines 104-112
UserResponses ==
    {[kind |-> "ok", json |-> Some([subscription |-> "free"])],
     [kind |-> "bad_json", json |-> None]}

GetUserInfo(resp) ==
    IF resp.kind = "http_error" THEN Ret(None)
    ELSE IF resp.kind = "bad_json" THEN Raise("ValueError", <<"Expecting value">>)
    ELSE Ret(resp.json)

\* --------------------------------------------- MIAVoiceIntegration, lines 108-135
BridgeHttpError == <<"All connection attempts failed">>

CommandResponses ==
    {[kind |-> "ok", json |-> [status |-> "done"]],
     [kind |-> "ok", json |-> [error |-> <<"unknown device">>]],
     [kind |-> "http_error", json |-> <<>>],
     [kind |-> "bad_json", json |-> <<>>]}

StatusResponses ==
    {[kind |-> "ok", json |-> [healthy |-> TRUE, devices |-> <<"lamp", "plug">>]],
     [kind |-> "ok", json |-> [healthy |-> FALSE]],
     [kind |-> "ok", json |-> [error |-> <<"maintenance">>]],
     [kind |-> "http_error", json |-> <<>>],
     [kind |-> "bad_json", json |-> <<>>]}

\* execute_voice_command that lets the httpx.HTTPError through
ExecuteVoiceCommand_Raise(resp) ==
    IF resp.kind = "http_error" THEN Raise("HTTPError", BridgeHttpError)
    ELSE IF resp.kind = "bad_json" THEN Raise("ValueError", <<"Expecting value">>)
    ELSE Ret(resp.json)

\* execute_voice_command once the response is in, lines 120-125
ExecuteVoiceCommand(resp) ==
    IF resp.kind = "http_error"
    THEN Ret([error |-> <<"Failed to execute command: ">> \o BridgeHttpError])
    ELSE IF resp.kind = "bad_json" THEN Raise("ValueError", <<"Expecting value">>)
    ELSE Ret(resp.json)

\* get_mia_status once the response is in, lines 131-135
GetMiaStatus(resp) ==
    IF resp.kind = "http_error"
    THEN Ret([error |-> <<"Failed to get status: ">> \o BridgeHttpError])
    ELSE IF resp.kind = "bad_json" THEN Raise("ValueError", <<"Expecting value">>)
    ELSE Ret(resp.json)


\* ------------------------------------------------ serve(), lines 150-417
\* the call slots of a host that waits for each answer before its next request
SessionLanes == {1}

\* the state at line 150 of a serve() whose three collaborators exist
InitSession ==
    /\ pc = "with"
    /\ session = "Uninitialized"
    /\ cause = "none"
    /\ key_arg \in {None, Some("sk-1")}
    /\ key_env = IF key_arg = None THEN Some("sk-1") ELSE None
    /\ mia_host \in Hosts
    /\ mia_port = DefaultPort
    /\ dir_ok = TRUE
    /\ objs = [client |-> "open", store |-> "built", bridge |-> "open",
               base_url |-> Some(BaseUrl(mia_host, mia_port))]
    /\ file \in FileStates
    /\ profiles = LoadProfiles(file)
    /\ raised = None
    /\ exit_code = None
    /\ lanes = SessionLanes
    /\ calls = [c \in lanes |-> NoCall]
    /\ tmpfiles = <<>>
    /\ served = <<>>
    /\ ops = <<>>

\* lines 150-413: the clients are entered, the server is created, the two
\* handlers are registered
EnterContext ==
    /\ pc = "with"
    /\ pc' = "run"
    /\ session' = "Initialized"
    /\ UNCHANGED <<cause, inputs, objs, profiles, file, raised, exit_code, lanes,
                   calls, tmpfiles, served, ops>>

\* lines 416-417: the stdio streams are opened and server.run() starts
RunServer ==
    /\ pc = "run"
    /\ pc' = "serving"
    /\ session' = "Serving"
    /\ UNCHANGED <<cause, inputs, objs, profiles, file, raised, exit_code, lanes,
                   calls, tmpfiles, served, ops>>

\* the calls in flight when server.run() ends are cancelled
Cancelled == [c \in lanes |-> IF calls[c].pc = "idle" THEN NoCall ELSE [pc |-> "cancelled"]]

\* server.run() ends: by what, and with which exception for serve()
LeaveServing(why, e) ==
    /\ pc = "serving"
    /\ pc' = "exiting"
    /\ session' = "ShuttingDown"
    /\ cause' = why
    /\ raised' = e
    /\ calls' = Cancelled
    /\ UNCHANGED <<inputs, objs, profiles, file, exit_code, lanes, tmpfiles, served, ops>>

\* the host closes the stream: server.run() returns
StreamClosed == LeaveServing("closed", None)

\* the stream fails: server.run(raise_exceptions=True) raises
StreamFault == LeaveServing("fault", Exc("Exception", <<"stream error">>))

\* the host interrupts the process: asyncio.run() cancels serve() where it
\* awaits, in server.run(), and main() line 43 sees KeyboardInterrupt
Interrupt == LeaveServing("interrupt", Exc("KeyboardInterrupt", <<>>))

\* the exit of `async with elevenlabs_client, mia_integration`, line 150:
\* MIAVoiceIntegration.__aexit__ then ElevenLabsClient.__aexit__
ExitContext ==
    /\ pc = "exiting"
    /\ pc' = "main"
    /\ session' = "Closed"
    /\ objs' = [objs EXCEPT !.bridge = "closed", !.client = "closed"]
    /\ UNCHANGED <<cause, inputs, profiles, file, raised, exit_code, lanes, calls,
                   tmpfiles, served, ops>>

\* ---------------------------------------------------- call_tool, lines 199-410
InFlight == Cardinality({c \in lanes : calls[c].pc # "idle"})

\* the requests the session has taken so far
Taken == Len(served) + InFlight + Len(ops)

Accepts(c) ==
    /\ pc = "serving"
    /\ calls[c].pc = "idle"
    /\ Taken < MaxCalls

\* list_tools(), lines 153-197; ops is the list of what it returned, each with
\* the number of calls answered before
ListTools ==
    /\ pc = "serving"
    /\ Taken < MaxCalls
    /\ ops' = Append(ops, [after |-> Len(served), tools |-> ToolDescriptors])
    /\ UNCHANGED <<pc, session, cause, inputs, objs, profiles, file, raised, exit_code,
                   lanes, calls, tmpfiles, served>>

\* what a step of call c leaves: an exception the except clause let through
\* reaches server.run(..., raise_exceptions=True) and ends it
Settle(c, call) ==
    /\ calls' = [calls EXCEPT ![c] = call]
    /\ IF call.pc = "raised"
       THEN /\ pc' = "exiting"
            /\ session' = "ShuttingDown"
            /\ cause' = "call_error"
            /\ raised' = call.exc
       ELSE UNCHANGED <<pc, session, cause, raised>>
    /\ UNCHANGED <<inputs, objs, exit_code, lanes, served, ops>>

\* the result of call c goes back to the host
Respond(c) ==
    /\ pc = "serving"
    /\ calls[c].pc = "done"
    /\ served' = Append(served, calls[c].excepted)
    /\ calls' = [calls EXCEPT ![c] = NoCall]
    /\ UNCHANGED <<pc, session, cause, inputs, objs, profiles, file, raised, exit_code,
                   lanes, tmpfiles, ops>>


\* "\n".join(lines)
RECURSIVE JoinLines(_)
JoinLines(lines) ==
    IF Len(lines) = 0 THEN <<>>
    ELSE IF Len(lines) = 1 THEN lines[1]
    ELSE lines[1] \o <<"\n">> \o JoinLines(Tail(lines))

\* the line of one voice, line 208
VoiceLine(voice) ==
    <<"- ", voice.name, " (ID: ", voice.voice_id, ", Category: ",
      Get(voice, "category", "unknown"), ")">>

\* the comprehension of lines 207-210: voice['name'] raises on a record without it
VoicesText(voices) ==
    IF \E i \in 1..Len(voices) : "name" \notin DOMAIN voices[i]
    THEN Raise("KeyError", <<"'", "name", "'">>)
    ELSE Ret(JoinLines([i \in 1..Len(voices) |-> VoiceLine(voices[i])]))

\* json.dumps(voice_details, indent=2) of a voice record
JsonDumps(voice) ==
    <<"{\"name\": \"", voice.name, "\", \"voice_id\": \"", voice.voice_id, "\"}">>

\* one file name for every synthesis: open("/tmp/speech.mp3", "wb")
TempPath_Fixed(n) == <<"/tmp/", "speech", ".mp3">>

\* tempfile.NamedTemporaryFile(suffix=".mp3", delete=False): the n-th name
TempPath(n) == <<"/tmp/tmp", ToString(n), ".mp3">>

\* how writing the temporary file can go: it succeeds, the file cannot be
\* created, or the write fails and leaves the file behind
TempOutcomes == {"ok", "create_fails", "write_fails"}

\* ---- the argument mappings the host sends, per tool
SampleText == "Hello world"
SampleCommand == "turn on the lights"
OtherModel == "eleven_multilingual_v2"
OtherNames == Names \ {DefaultProfile}

NoArguments == <<>>

VoiceDetailsArguments == {NoArguments, "voice_id" :> "voice-123"}

GenerateSpeechArguments ==
    {"voice_id" :> "voice-123",
     "text" :> SampleText,
     "text" :> SampleText @@ "voice_id" :> "voice-123",
     "text" :> SampleText @@ "voice_id" :> "voice-123" @@ "stability" :> 7,
     "text" :> SampleText @@ "voice_id" :> "voice-123" @@ "model_id" :> OtherModel
        @@ "stability" :> 7 @@ "similarity_boost" :> 8}

CreateProfileArguments ==
    {"voice_id" :> "voice-abc"} \cup
    {"name" :> n : n \in Names} \cup
    {"name" :> n @@ "voice_id" :> v : n \in Names, v \in VoiceIds} \cup
    {"name" :> n @@ "voice_id" :> "voice-123" @@ "stability" :> 7
        @@ "similarity_boost" :> 8 : n \in Names}

FromProfileArguments ==
    {"text" :> SampleText, "profile_name" :> DefaultProfile} \cup
    {"text" :> SampleText @@ "profile_name" :> n : n \in Names}

VoiceCommandArguments ==
    {NoArguments, "command" :> SampleCommand} \cup
    {"command" :> SampleCommand @@ "voice_profile" :> n : n \in OtherNames}

StatusArguments == {NoArguments} \cup {"voice_profile" :> n : n \in OtherNames}

\* ---- the cases of `match name`, up to the first await or the return
\* case LIST_VOICES, line 206
EnterListVoices(name, arguments) ==
    Await(NewCall(name, arguments), "await_voices",
          Event("voice", "GET", <<"/v1/voices">>, None))

\* case GET_VOICE_DETAILS, lines 217-218
EnterGetVoiceDetails(name, arguments) ==
    LET call == NewCall(name, arguments)
        voice_id == Subscript(arguments, "voice_id")
    IN  IF ~voice_id.ok THEN Except(call, voice_id.exc)
        ELSE Await([call EXCEPT !.subject = voice_id.val], "await_voice",
                   Event("voice", "GET", <<"/v1/voices/", voice_id.val>>, None))

\* case GENERATE_SPEECH, lines 231-244
EnterGenerateSpeech(name, arguments) ==
    LET call == NewCall(name, arguments)
        text == Subscript(arguments, "text")
        voice_id == Subscript(arguments, "voice_id")
        model_id == Get(arguments, "model_id", DefaultModel)
        stability == Get(arguments, "stability", DefaultStability)
        similarity_boost == Get(arguments, "similarity_boost", DefaultSimilarityBoost)
        voice_settings == MkSettings(stability, similarity_boost)
    IN  IF ~text.ok THEN Except(call, text.exc)
        ELSE IF ~voice_id.ok THEN Except(call, voice_id.exc)
        ELSE Await([call EXCEPT !.text = <<text.val>>, !.subject = voice_id.val],
                   "await_speech",
                   SpeechRequest(<<text.val>>, voice_id.val, model_id, Some(voice_settings)))

\* case CREATE_VOICE_PROFILE, lines 265-279: `name` is assigned the profile
\* name; w is how the write of the file goes
EnterCreateVoiceProfile(name, arguments, d, f, now, w) ==
    LET call == NewCall(name, arguments)
        profile_name == Subscript(arguments, "name")
        renamed == [call EXCEPT !.name = profile_name.val, !.subject = profile_name.val]
        voice_id == Subscript(arguments, "voice_id")
        stability == Get(arguments, "stability", DefaultStability)
        similarity_boost == Get(arguments, "similarity_boost", DefaultSimilarityBoost)
        settings == MkSettings(stability, similarity_boost)
        created == CreateProfile(d, profile_name.val, voice_id.val, settings, now)
    IN  IF ~profile_name.ok
        THEN [call |-> Except(call, profile_name.exc), profiles |-> d, file |-> f]
        ELSE IF ~voice_id.ok
        THEN [call |-> Except(renamed, voice_id.exc), profiles |-> d, file |-> f]
        ELSE [call |-> Return([renamed EXCEPT !.events =
                                 <<Event("store", "create_profile", <<profile_name.val>>, None)>>],
                              <<"Voice profile '", profile_name.val,
                                "' created with voice ID '", voice_id.val, "'">>),
              profiles |-> created,
              file |-> SaveProfiles(created, f, w)]

\* case LIST_VOICE_PROFILES, lines 282-293
EnterListVoiceProfiles(name, arguments, d) ==
    LET call == [NewCall(name, arguments) EXCEPT !.events =
                    <<Event("store", "list_profiles", <<>>, None)>>]
        listed == ListProfiles(d)
    IN  IF Len(listed) > 0
        THEN Return(call, <<"Saved voice profiles:\n">> \o
                          JoinLines([i \in 1..Len(listed) |-> <<"- ", listed[i]>>]))
        ELSE Return(call, <<"No voice profiles saved yet">>)

\* the case without its `if not profile` return: the name is used as a voice id
EnterGenerateSpeechFromProfile_NoCheck(name, arguments, d) ==
    LET call == NewCall(name, arguments)
        text == Subscript(arguments, "text")
        profile_name == Subscript(arguments, "profile_name")
        profile == GetProfile(d, profile_name.val)
        looked == [call EXCEPT !.text = <<text.val>>, !.subject = profile_name.val,
                               !.events = <<Event("store", "get_profile",
                                                  <<profile_name.val>>, profile)>>]
    IN  IF ~text.ok THEN Except(call, text.exc)
        ELSE IF ~profile_name.ok THEN Except(call, profile_name.exc)
        ELSE Await(looked, "await_speech",
                   SpeechRequest(<<text.val>>,
                                 IF profile = None THEN profile_name.val
                                 ELSE profile[1].voice_id,
                                 DefaultModel,
                                 IF profile = None THEN None ELSE Some(profile[1].settings)))

\* case GENERATE_SPEECH_FROM_PROFILE, lines 296-311
EnterGenerateSpeechFromProfile(name, arguments, d) ==
    LET call == NewCall(name, arguments)
        text == Subscript(arguments, "text")
        profile_name == Subscript(arguments, "profile_name")
        profile == GetProfile(d, profile_name.val)
        looked == [call EXCEPT !.text = <<text.val>>, !.subject = profile_name.val,
                               !.events = <<Event("store", "get_profile",
                                                  <<profile_name.val>>, profile)>>]
    IN  IF ~text.ok THEN Except(call, text.exc)
        ELSE IF ~profile_name.ok THEN Except(call, profile_name.exc)
        ELSE IF profile = None
        THEN Return(looked, <<"Voice profile '", profile_name.val, "' not found">>)
        ELSE Await(looked, "await_speech",
                   SpeechRequest(<<text.val>>, profile[1].voice_id, DefaultModel,
                                 Some(profile[1].settings)))

\* case MIA_VOICE_COMMAND, lines 331-335, with the request of lines 113-119
\* (the payload's timestamp is left out)
EnterVoiceCommand(name, arguments, base_url) ==
    LET call == NewCall(name, arguments)
        command == Subscript(arguments, "command")
        voice_profile == Get(arguments, "voice_profile", DefaultProfile)
    IN  IF ~command.ok THEN Except(call, command.exc)
        ELSE Await([call EXCEPT !.text = <<command.val>>, !.subject = voice_profile],
                   "await_command",
                   Event("bridge", "POST", base_url \o <<"/voice-command">>,
                         Some([command |-> command.val, source |-> "voice"])))

\* case GET_MIA_STATUS, lines 364-367, with the request of line 130
EnterStatus(name, arguments, base_url) ==
    LET call == NewCall(name, arguments)
        voice_profile == Get(arguments, "voice_profile", DefaultProfile)
    IN  Await([call EXCEPT !.subject = voice_profile], "await_status",
              Event("bridge", "GET", base_url \o <<"/status">>, None))

\* a default case that serves the first tool instead of raising
EnterUnknown_Default(name, arguments) == EnterListVoices(name, arguments)

\* case _, line 403
EnterUnknown(name, arguments) ==
    Except(NewCall(name, arguments), Exc("ValueError", <<"Unknown tool: ", name>>))


\* ---- the cases of `match name`, from an await on
\* a get_voices() that never returns
AfterVoices_Hang(call, resp) == call

\* LIST_VOICES, lines 206-214
AfterVoices(call, resp) ==
    LET voices == GetVoices(resp)
        voices_text == VoicesText(voices.val)
    IN  IF ~voices.ok THEN Except(call, voices.exc)
        ELSE IF ~voices_text.ok THEN Except(call, voices_text.exc)
        ELSE Return(call, <<"Available voices:\n">> \o voices_text.val)

\* GET_VOICE_DETAILS, lines 218-228
AfterVoice(call, resp) ==
    LET voice_details == GetVoice(resp)
    IN  IF ~voice_details.ok THEN Except(call, voice_details.exc)
        ELSE IF voice_details.val # None /\ voice_details.val[1] # <<>>
        THEN Return(call, <<"Voice details:\n">> \o JsonDumps(voice_details.val[1]))
        ELSE Return(call, <<"Voice ", call.subject, " not found">>)

\* the block with `if audio_data is not None:` in place of `if audio_data:`
SaveAudio_NotNone(call, resp, tmp, files, before, after, unsaid) ==
    LET audio_data == GenerateSpeech(resp)
        temp_path == TempPath(Len(files) + 1)
        heard == [call EXCEPT !.audio = <<audio_data.val>>]
        made == [heard EXCEPT !.path = Some(temp_path)]
    IN  IF ~audio_data.ok
        THEN [call |-> Except(call, audio_data.exc), files |-> files]
        ELSE IF audio_data.val = None
        THEN [call |-> Return(heard, unsaid), files |-> files]
        ELSE IF tmp = "create_fails"
        THEN [call |-> Except(heard, Exc("OSError", <<"No usable temporary directory">>)),
              files |-> files]
        ELSE IF tmp = "write_fails"
        THEN [call |-> Except(made, Exc("OSError", <<"No space left on device">>)),
              files |-> Append(files, [path |-> temp_path, content |-> ""])]
        ELSE [call |-> Return(made, before \o temp_path \o after),
              files |-> Append(files, [path |-> temp_path,
                                       content |-> audio_data.val[1]])]

\* `if audio_data:` and the `with tempfile.NamedTemporaryFile(...)` block that
\* follows it in each of the four cases: the call and the files afterwards.
\* before \o temp_path \o after is the text when the audio was saved, unsaid
\* the text otherwise
SaveAudio(call, resp, tmp, files, before, after, unsaid) ==
    LET audio_data == GenerateSpeech(resp)
        temp_path == TempPath(Len(files) + 1)
        heard == [call EXCEPT !.audio = <<audio_data.val>>]
        made == [heard EXCEPT !.path = Some(temp_path)]
    IN  IF ~audio_data.ok
        THEN [call |-> Except(call, audio_data.exc), files |-> files]
        ELSE IF audio_data.val = None \/ audio_data.val[1] = ""
        THEN [call |-> Return(heard, unsaid), files |-> files]
        ELSE IF tmp = "create_fails"
        THEN [call |-> Except(heard, Exc("OSError", <<"No usable temporary directory">>)),
              files |-> files]
        ELSE IF tmp = "write_fails"
        THEN [call |-> Except(made, Exc("OSError", <<"No space left on device">>)),
              files |-> Append(files, [path |-> temp_path, content |-> ""])]
        ELSE [call |-> Return(made, before \o temp_path \o after),
              files |-> Append(files, [path |-> temp_path,
                                       content |-> audio_data.val[1]])]

\* GENERATE_SPEECH, lines 242-262
AfterGenerateSpeech(call, resp, tmp, files) ==
    SaveAudio(call, resp, tmp, files,
              <<"Speech generated successfully. Audio saved to: ">>,
              <<"\nText: '">> \o call.text \o <<"'">>,
              <<"Failed to generate speech">>)

\* GENERATE_SPEECH_FROM_PROFILE, lines 309-328
AfterSpeechFromProfile(call, resp, tmp, files) ==
    SaveAudio(call, resp, tmp, files,
              <<"Speech generated from profile '", call.subject, "'. Audio saved to: ">>,
              <<"\nText: '">> \o call.text \o <<"'">>,
              <<"Failed to generate speech from profile">>)

\* the lookup without its `if profile:` guard: an absent profile is spoken
\* with the name as the voice id
Narrate_Unchecked(call, narration, d) ==
    LET profile == GetProfile(d, call.subject)
        looked == [call EXCEPT !.text = narration,
                               !.events = Append(@, Event("store", "get_profile",
                                                          <<call.subject>>, profile))]
    IN  Await(looked, "await_speech",
              SpeechRequest(narration,
                            IF profile = None THEN call.subject ELSE profile[1].voice_id,
                            DefaultModel,
                            IF profile = None THEN None ELSE Some(profile[1].settings)))

\* the profile lookup and what follows it in the two MIA cases, lines 345-349
\* and 384-388: the narration is spoken when the profile exists, returned as is
\* when it does not
Narrate(call, narration, d) ==
    LET profile == GetProfile(d, call.subject)
        looked == [call EXCEPT !.text = narration,
                               !.events = Append(@, Event("store", "get_profile",
                                                          <<call.subject>>, profile))]
    IN  IF profile # None
        THEN Await(looked, "await_speech",
                   SpeechRequest(narration, profile[1].voice_id, DefaultModel,
                                 Some(profile[1].settings)))
        ELSE Return(looked, narration)

\* the case with the success sentence added whatever the bridge returned
AfterCommand_AlwaysSuccess(call, resp, d) ==
    LET result == ExecuteVoiceCommand(resp)
        response_text ==
            <<"Voice command executed: ">> \o call.text \o
            <<". Command completed successfully.">>
    IN  IF ~result.ok THEN Except(call, result.exc)
        ELSE Narrate([call EXCEPT !.reply = Some(result.val)], response_text, d)

\* MIA_VOICE_COMMAND, lines 335-349 and 358-361
AfterCommand(call, resp, d) ==
    LET result == ExecuteVoiceCommand(resp)
        response_text ==
            <<"Voice command executed: ">> \o call.text \o
            (IF "error" \notin DOMAIN result.val
             THEN <<". Command completed successfully.">>
             ELSE <<". Error: ">> \o result.val.error)
    IN  IF ~result.ok THEN Except(call, result.exc)
        ELSE Narrate([call EXCEPT !.reply = Some(result.val)], response_text, d)

\* MIA_VOICE_COMMAND, lines 347-361
AfterCommandSpeech(call, resp, tmp, files) ==
    SaveAudio(call, resp, tmp, files,
              call.text \o <<"\nVoice response saved to: ">>, <<>>, call.text)

\* GET_MIA_STATUS, lines 367-388 and 397-400
AfterStatus(call, resp, d) ==
    LET status == GetMiaStatus(resp)
        devices == Get(status.val, "devices", <<>>)
        status_text ==
            IF "error" \in DOMAIN status.val
            THEN <<"MIA system status unavailable: ">> \o status.val.error
            ELSE <<"MIA system status: ">> \o
                 (IF Get(status.val, "healthy", FALSE)
                  THEN <<"System is healthy. ">> ELSE <<"System has issues. ">>) \o
                 <<ToString(Len(devices)), " devices connected.">>
    IN  IF ~status.ok THEN Except(call, status.exc)
        ELSE Narrate([call EXCEPT !.reply = Some(status.val)], status_text, d)

\* GET_MIA_STATUS, lines 386-400
AfterStatusSpeech(call, resp, tmp, files) ==
    SaveAudio(call, resp, tmp, files,
              call.text \o <<"\nVoice status saved to: ">>, <<>>, call.text)

\* ---- the steps of a call
Quiet == UNCHANGED <<profiles, file, tmpfiles>>

CallListVoices(c) ==
    /\ Accepts(c)
    /\ Route(ToolCatalog[1]) = 1
    /\ Settle(c, EnterListVoices(ToolCatalog[1], NoArguments))
    /\ Quiet

CallGetVoiceDetails(c, arguments) ==
    /\ Accepts(c)
    /\ Route(ToolCatalog[2]) = 2
    /\ Settle(c, EnterGetVoiceDetails(ToolCatalog[2], arguments))
    /\ Quiet

CallGenerateSpeech(c, arguments) ==
    /\ Accepts(c)
    /\ Route(ToolCatalog[3]) = 3
    /\ Settle(c, EnterGenerateSpeech(ToolCatalog[3], arguments))
    /\ Quiet

CallCreateVoiceProfile(c, arguments, now, w) ==
    /\ Accepts(c)
    /\ Route(ToolCatalog[4]) = 4
    /\ LET out == EnterCreateVoiceProfile(ToolCatalog[4], arguments, profiles, file, now, w)
       IN  /\ Settle(c, out.call)
           /\ profiles' = out.profiles
           /\ file' = out.file
    /\ UNCHANGED tmpfiles

CallListVoiceProfiles(c) ==
    /\ Accepts(c)
    /\ Route(ToolCatalog[5]) = 5
    /\ Settle(c, EnterListVoiceProfiles(ToolCatalog[5], NoArguments, profiles))
    /\ Quiet

CallGenerateSpeechFromProfile(c, arguments) ==
    /\ Accepts(c)
    /\ Route(ToolCatalog[6]) = 6
    /\ Settle(c, EnterGenerateSpeechFromProfile(ToolCatalog[6], arguments, profiles))
    /\ Quiet

CallVoiceCommand(c, arguments) ==
    /\ Accepts(c)
    /\ Route(ToolCatalog[7]) = 7
    /\ Settle(c, EnterVoiceCommand(ToolCatalog[7], arguments, objs.base_url[1]))
    /\ Quiet

CallStatus(c, arguments) ==
    /\ Accepts(c)
    /\ Route(ToolCatalog[8]) = 8
    /\ Settle(c, EnterStatus(ToolCatalog[8], arguments, objs.base_url[1]))
    /\ Quiet

CallUnknown(c, name, arguments) ==
    /\ Accepts(c)
    /\ Route(name) = 0
    /\ Settle(c, EnterUnknown(name, arguments))
    /\ Quiet

Awaits(c, at) == pc = "serving" /\ calls[c].pc = at

VoicesResponse(c, resp) ==
    /\ Awaits(c, "await_voices")
    /\ Settle(c, AfterVoices(calls[c], resp))
    /\ Quiet

VoiceResponse(c, resp) ==
    /\ Awaits(c, "await_voice")
    /\ Settle(c, AfterVoice(calls[c], resp))
    /\ Quiet

CommandResponse(c, resp) ==
    /\ Awaits(c, "await_command")
    /\ Settle(c, AfterCommand(calls[c], resp, profiles))
    /\ Quiet

StatusResponse(c, resp) ==
    /\ Awaits(c, "await_status")
    /\ Settle(c, AfterStatus(calls[c], resp, profiles))
    /\ Quiet

\* the response to the synthesis request, in the case the call is in
AfterSpeech(call, resp, tmp, files) ==
    IF call.tool = ToolCatalog[3] THEN AfterGenerateSpeech(call, resp, tmp, files)
    ELSE IF call.tool = ToolCatalog[6] THEN AfterSpeechFromProfile(call, resp, tmp, files)
    ELSE IF call.tool = ToolCatalog[7] THEN AfterCommandSpeech(call, resp, tmp, files)
    ELSE AfterStatusSpeech(call, resp, tmp, files)

SpeechResponse(c, resp, tmp) ==
    /\ Awaits(c, "await_speech")
    /\ LET out == AfterSpeech(calls[c], resp, tmp, tmpfiles)
       IN  /\ Settle(c, out.call)
           /\ tmpfiles' = out.files
    /\ UNCHANGED <<profiles, file>>

NextSession ==
    \/ EnterContext
    \/ RunServer
    \/ \E c \in lanes : CallListVoices(c)
    \/ \E c \in lanes, arguments \in VoiceDetailsArguments : CallGetVoiceDetails(c, arguments)
    \/ \E c \in lanes, arguments \in GenerateSpeechArguments : CallGenerateSpeech(c, arguments)
    \/ \E c \in lanes, arguments \in CreateProfileArguments, now \in SessionTimes,
          w \in WriteOutcomes : CallCreateVoiceProfile(c, arguments, now, w)
    \/ \E c \in lanes : CallListVoiceProfiles(c)
    \/ \E c \in lanes, arguments \in FromProfileArguments :
          CallGenerateSpeechFromProfile(c, arguments)
    \/ \E c \in lanes, arguments \in VoiceCommandArguments : CallVoiceCommand(c, arguments)
    \/ \E c \in lanes, arguments \in StatusArguments : CallStatus(c, arguments)
    \/ \E c \in lanes, name \in UnknownNames \cup ToolNames,
          arguments \in VoiceDetailsArguments : CallUnknown(c, name, arguments)
    \/ ListTools
    \/ \E c \in lanes, resp \in VoicesResponses : VoicesResponse(c, resp)
    \/ \E c \in lanes, resp \in VoiceResponses : VoiceResponse(c, resp)
    \/ \E c \in lanes, resp \in CommandResponses : CommandResponse(c, resp)
    \/ \E c \in lanes, resp \in StatusResponses : StatusResponse(c, resp)
    \/ \E c \in lanes, resp \in SpeechResponses, tmp \in TempOutcomes :
          SpeechResponse(c, resp, tmp)
    \/ \E c \in lanes : Respond(c)
    \/ StreamClosed
    \/ StreamFault
    \/ Interrupt
    \/ ExitContext
    \/ MainExit

SpecSession == InitSession /\ [][NextSession]_vars

\* the request call c waits for ends: with a response, with an error, or at
\* the timeout of the client that sent it (30 s, line 34 of the voice client;
\* 10 s, line 100 of the bridge)
Responds(c) ==
    \/ \E resp \in VoicesResponses : VoicesResponse(c, resp)
    \/ \E resp \in VoiceResponses : VoiceResponse(c, resp)
    \/ \E resp \in CommandResponses : CommandResponse(c, resp)
    \/ \E resp \in StatusResponses : StatusResponse(c, resp)
    \/ \E resp \in SpeechResponses, tmp \in TempOutcomes : SpeechResponse(c, resp, tmp)

\* the session when every request that was sent ends
SpecSessionLive == SpecSession /\ \A c \in SessionLanes : WF_vars(Responds(c))

\* -------------------------------------- serve() under a host that pipelines
\* the call slots of a host that sends a request before the answer to the
\* previous one is in: server.run() starts one task per request
PipelinedLanes == {1, 2}

InitPipelined ==
    /\ pc = "with"
    /\ session = "Uninitialized"
    /\ cause = "none"
    /\ key_arg = Some("sk-1")
    /\ key_env = None
    /\ mia_host = DefaultHost
    /\ mia_port = DefaultPort
    /\ dir_ok = TRUE
    /\ objs = [client |-> "open", store |-> "built", bridge |-> "open",
               base_url |-> Some(BaseUrl(mia_host, mia_port))]
    /\ file \in FileStates
    /\ profiles = LoadProfiles(file)
    /\ raised = None
    /\ exit_code = None
    /\ lanes = PipelinedLanes
    /\ calls = [c \in lanes |-> NoCall]
    /\ tmpfiles = <<>>
    /\ served = <<>>
    /\ ops = <<>>

\* two profiles a host may create under one name: they differ in the voice id
\* and in both settings
OverwriteArguments ==
    {"name" :> n @@ "voice_id" :> "voice-123" : n \in Names} \cup
    {"name" :> n @@ "voice_id" :> "voice-abc" @@ "stability" :> 7
        @@ "similarity_boost" :> 8 : n \in Names}

NextPipelined ==
    \/ EnterContext
    \/ RunServer
    \/ \E c \in lanes, arguments \in OverwriteArguments, now \in SessionTimes,
          w \in WriteOutcomes : CallCreateVoiceProfile(c, arguments, now, w)
    \/ \E c \in lanes : CallListVoiceProfiles(c)
    \/ \E c \in lanes, arguments \in FromProfileArguments :
          CallGenerateSpeechFromProfile(c, arguments)
    \/ \E c \in lanes, arguments \in VoiceCommandArguments : CallVoiceCommand(c, arguments)
    \/ \E c \in lanes, resp \in CommandResponses : CommandResponse(c, resp)
    \/ \E c \in lanes, resp \in SpeechResponses, tmp \in TempOutcomes :
          SpeechResponse(c, resp, tmp)
    \/ \E c \in lanes : Respond(c)
    \/ StreamClosed
    \/ ExitContext
    \/ MainExit

SpecPipelined == InitPipelined /\ [][NextPipelined]_vars

\* --------------------------------------- the two HTTP clients on their own
\* the subclasses of httpx.HTTPError a request can end with: an error status
\* (raise_for_status), a transport failure, the timeout of the client
HttpErrors == {"HTTPStatusError", "ConnectError", "ReadTimeout"}

\* a request that ended with the httpx.HTTPError e
Failed(e) == [kind |-> "http_error", json |-> None, content |-> "", error |-> e]

Failures == {Failed(e) : e \in HttpErrors}

\* a parameter with a default value: None stands for an argument left out
DefaultArg(arg, default) == IF arg = None THEN default ELSE arg[1]

ClientOps == {"get_voices", "get_voice", "generate_speech", "get_models", "get_user_info"}

BridgeOps == {"execute_voice_command", "get_mia_status"}

\* the state after ElevenLabsClient(api_key=...) and MIAVoiceIntegration(...)
\* were constructed; ops is the list of the operations that have returned,
\* each with the number of requests it sent, what its request came to and
\* what it returned or raised
InitClients ==
    /\ pc = "client_api"
    /\ session = "Uninitialized"
    /\ cause = "none"
    /\ key_arg = Some("sk-1")
    /\ key_env = None
    /\ mia_host \in Hosts
    /\ mia_port = DefaultPort
    /\ dir_ok = TRUE
    /\ objs = [client |-> "open", store |-> "none", bridge |-> "open",
               base_url |-> Some(BaseUrl(mia_host, mia_port))]
    /\ profiles = <<>>
    /\ file = FileMissing
    /\ raised = None
    /\ exit_code = None
    /\ lanes = {1}
    /\ calls = [c \in lanes |-> NoCall]
    /\ tmpfiles = <<>>
    /\ served = <<>>
    /\ ops = <<>>

\* an operation is entered and suspends on the request it sends
Request(c, op, arguments, event) ==
    /\ pc = "client_api"
    /\ calls[c].pc = "idle"
    /\ Len(ops) < MaxRequests
    /\ IF op \in ClientOps THEN objs.client = "open" ELSE objs.bridge = "open"
    /\ calls' = [calls EXCEPT ![c] = [pc |-> "await", op |-> op, arguments |-> arguments,
                                      events |-> <<event>>]]
    /\ UNCHANGED <<pc, session, cause, inputs, objs, profiles, file, raised, exit_code,
                   lanes, tmpfiles, served, ops>>

\* get_voices(), line 46
ClientGetVoices(c) ==
    Request(c, "get_voices", <<>>, Event("voice", "GET", <<"/v1/voices">>, None))

\* get_voice(voice_id), line 57
ClientGetVoice(c, voice_id) ==
    Request(c, "get_voice", <<voice_id>>, Event("voice", "GET", <<"/v1/voices/", voice_id>>, None))

\* generate_speech(text, voice_id[, model_id[, voice_settings]]), lines 64-86
ClientGenerateSpeech(c, text, voice_id, model_id, voice_settings) ==
    Request(c, "generate_speech", <<text, voice_id, model_id, voice_settings>>,
            SpeechRequest(<<text>>, voice_id, DefaultArg(model_id, DefaultModel),
                          voice_settings))

\* get_models(), line 97
ClientGetModels(c) ==
    Request(c, "get_models", <<>>, Event("voice", "GET", <<"/v1/models">>, None))

\* get_user_info(), line 107
ClientGetUserInfo(c) ==
    Request(c, "get_user_info", <<>>, Event("voice", "GET", <<"/v1/user">>, None))

\* execute_voice_command(command_text), lines 113-119 (the payload's timestamp
\* is left out)
BridgeExecuteVoiceCommand(c, command_text) ==
    Request(c, "execute_voice_command", <<command_text>>,
            Event("bridge", "POST", objs.base_url[1] \o <<"/voice-command">>,
                  Some([command |-> command_text, source |-> "voice"])))

\* get_mia_status(), line 130
BridgeGetMiaStatus(c) ==
    Request(c, "get_mia_status", <<>>,
            Event("bridge", "GET", objs.base_url[1] \o <<"/status">>, None))

\* what the request of an operation can come to
ResponsesTo(op) ==
    Failures \cup
    CASE op = "get_voices" -> VoicesResponses
      [] op = "get_voice" -> VoiceResponses
      [] op = "generate_speech" -> SpeechResponses
      [] op = "get_models" -> ModelsResponses
      [] op = "get_user_info" -> UserResponses
      [] op = "execute_voice_command" -> CommandResponses
      [] op = "get_mia_status" -> StatusResponses

\* the rest of the operation once its request has ended
Resume(op, resp) ==
    CASE op = "get_voices" -> GetVoices(resp)
      [] op = "get_voice" -> GetVoice(resp)
      [] op = "generate_speech" -> GenerateSpeech(resp)
      [] op = "get_models" -> GetModels(resp)
      [] op = "get_user_info" -> GetUserInfo(resp)
      [] op = "execute_voice_command" -> ExecuteVoiceCommand(resp)
      [] op = "get_mia_status" -> GetMiaStatus(resp)

\* the request ends and the operation returns to its caller, or raises
Returned(c, resp) ==
    /\ pc = "client_api"
    /\ calls[c].pc = "await"
    /\ ops' = Append(ops, [op |-> calls[c].op, sent |-> Len(calls[c].events),
                           resp |-> resp, ret |-> Resume(calls[c].op, resp)])
    /\ calls' = [calls EXCEPT ![c] = NoCall]
    /\ UNCHANGED <<pc, session, cause, inputs, objs, profiles, file, raised, exit_code,
                   lanes, tmpfiles, served>>

\* the arguments a caller of generate_speech may leave out or pass
ModelArgs == {None, Some(OtherModel)}
SettingsArgs == {None, Some(<<>>), Some(MkSettings(7, 8))}

NextClients ==
    \/ \E c \in lanes : ClientGetVoices(c)
    \/ \E c \in lanes, voice_id \in VoiceIds : ClientGetVoice(c, voice_id)
    \/ \E c \in lanes, voice_id \in VoiceIds, model_id \in ModelArgs,
          voice_settings \in SettingsArgs :
            ClientGenerateSpeech(c, SampleText, voice_id, model_id, voice_settings)
    \/ \E c \in lanes : ClientGetModels(c)
    \/ \E c \in lanes : ClientGetUserInfo(c)
    \/ \E c \in lanes : BridgeExecuteVoiceCommand(c, SampleCommand)
    \/ \E c \in lanes : BridgeGetMiaStatus(c)
    \/ \E c \in lanes :
          /\ calls[c].pc = "await"
          /\ \E resp \in ResponsesTo(calls[c].op) : Returned(c, resp)

SpecClients == InitClients /\ [][NextClients]_vars


\* ====================================================================
\* Properties
\* ====================================================================
Active(c) == calls[c].pc \notin {"idle", "cancelled"}

Done(c) == calls[c].pc = "done"

ResultText(c) == calls[c].result[1].text

Mentions(text, word) == \E i \in 1..Len(text) : text[i] = word

EventsTo(c, to) == {i \in 1..Len(calls[c].events) : calls[c].events[i].to = to}

\* the lookups of call c that found no profile
MissedLookups(c) ==
    {i \in EventsTo(c, "store") :
        calls[c].events[i].method = "get_profile" /\ calls[c].events[i].body = None}

\* C1 (SpecSession): whatever a call raises (a missing argument, an unknown
\* tool, a response that cannot be decoded, a request that fails outside
\* httpx.HTTPError, a temporary file that cannot be written) is caught by the
\* except clause of call_tool: no exception leaves call_tool, the call ends
\* with one text result, which for a caught exception is the "Error executing"
\* text, and the session is still Serving when it does.
C1_ErrorsStayInTheCall ==
    /\ cause # "call_error"
    /\ \A c \in lanes :
        /\ calls[c].pc # "raised"
        /\ Done(c) =>
            /\ calls[c].result # None
            /\ calls[c].result[1].type = "text"
            /\ session = "Serving"
            /\ calls[c].excepted => ResultText(c)[1] = "Error executing "

\* C1 witness: a call has ended in the except clause and been answered, and the
\* call after it has returned a result that is not an error.
C1_NextCallServed ==
    /\ session = "Serving"
    /\ Len(served) >= 1 /\ served[Len(served)]
    /\ \E c \in lanes : Done(c) /\ ~calls[c].excepted

\* C2 (SpecSession): a call whose tool name is not in the catalog ends at once
\* with the error text that holds the name, makes no use of the voice API, the
\* profile store or the bridge, changes no file, and leaves the session Serving.
C2_UnknownTool ==
    \A c \in lanes :
        (Active(c) /\ calls[c].tool \notin ToolNames) =>
            /\ Done(c)
            /\ calls[c].excepted
            /\ ResultText(c) = <<"Error executing ", calls[c].tool, ": ",
                                 "Unknown tool: ", calls[c].tool>>
            /\ Mentions(ResultText(c), calls[c].tool)
            /\ calls[c].events = <<>>
            /\ session = "Serving"

\* C2 witness: an unknown tool has been answered with its error and an unknown
\* tool is answered again by the same session.
C2_UnknownToolTwice ==
    /\ Len(served) >= 1 /\ served[Len(served)]
    /\ \E c \in lanes : Done(c) /\ calls[c].tool \in UnknownNames /\ calls[c].tool # ""

\* C3 (SpecSession): in elevenlabs_generate_speech_from_profile the profile
\* lookup is the first use of any collaborator, and when it finds no profile the
\* call ends there: the result is the "not found" text with the profile name and
\* no request goes to the voice API.
C3_MissingProfileNoRequest ==
    \A c \in lanes :
        (Active(c) /\ calls[c].tool = ToolCatalog[6]) =>
            /\ calls[c].events # <<>> => calls[c].events[1].to = "store"
            /\ MissedLookups(c) # {} =>
                /\ Done(c)
                /\ ~calls[c].excepted
                /\ ResultText(c) = <<"Voice profile '", calls[c].arguments.profile_name,
                                     "' not found">>
                /\ EventsTo(c, "voice") = {}
                /\ EventsTo(c, "bridge") = {}

\* C3 witness: the call has ended on a profile name the store does not hold.
C3_MissingProfileAnswered ==
    \E c \in lanes :
        /\ Done(c) /\ calls[c].tool = ToolCatalog[6]
        /\ MissedLookups(c) # {}
        /\ ~DictHas(profiles, calls[c].arguments.profile_name)

MiaTools == {ToolCatalog[7], ToolCatalog[8]}

\* C4 as stated (SpecSession): in the two MIA tools the profile lookup comes
\* before any request to the bridge or the voice API, and a lookup that finds no
\* profile ends the call with a "not found" text.
C4_Original ==
    \A c \in lanes :
        (Active(c) /\ calls[c].tool \in MiaTools) =>
            /\ calls[c].events # <<>> => calls[c].events[1].to = "store"
            /\ MissedLookups(c) # {} =>
                /\ Done(c)
                /\ ResultText(c) = <<"Voice profile '", calls[c].subject, "' not found">>

\* C4 amended (SpecSession): in the two MIA tools the one request to the bridge
\* comes first, the profile lookup second and any request to the voice API after
\* the lookup; a lookup that finds no profile ends the call with the narration
\* alone (no "not found" text, no audio path, no error) and without a request to
\* the voice API.
C4_LookupAfterBridge ==
    \A c \in lanes :
        (Active(c) /\ calls[c].tool \in MiaTools) =>
            /\ calls[c].events # <<>> => calls[c].events[1].to = "bridge"
            /\ EventsTo(c, "bridge") \subseteq {1}
            /\ EventsTo(c, "store") \subseteq {2}
            /\ EventsTo(c, "voice") \subseteq {3}
            /\ EventsTo(c, "voice") # {} => EventsTo(c, "store") # {} /\ MissedLookups(c) = {}
            /\ MissedLookups(c) # {} =>
                /\ Done(c)
                /\ ~calls[c].excepted
                /\ ResultText(c) = calls[c].text
                /\ ~Mentions(ResultText(c), "' not found")
                /\ EventsTo(c, "voice") = {}

\* C4 witness: a MIA tool has ended after its bridge request on a profile that
\* the store does not hold.
C4_MiaWithoutProfile ==
    \E c \in lanes :
        /\ Done(c) /\ calls[c].tool \in MiaTools
        /\ MissedLookups(c) = {2}
        /\ EventsTo(c, "bridge") = {1}


Exited == pc \in {"main", "exit"}

KeyGiven == key_arg = Some("sk-1") \/ key_env = Some("sk-1")

\* C5 (Spec): once serve() has been left, neither HTTP client it constructed is
\* still open.
C5_ClientsClosedOnExit ==
    Exited => (objs.client # "open" /\ objs.bridge # "open")

\* C6 (Spec): with an API key (and a usable config directory), serve() is not
\* left before the session has been set up: when it has been left, the store
\* and the bridge were constructed, the bridge with the base URL
\* http://<mia_host>:<mia_port>, and the session got past Uninitialized.
C6_InitializationCompletes ==
    (KeyGiven /\ dir_ok /\ Exited) =>
        /\ objs.store = "built"
        /\ objs.bridge # "none"
        /\ objs.base_url = Some(BaseUrl(mia_host, mia_port))
        /\ session # "Uninitialized"

LifecycleEdges ==
    {<<"Uninitialized", "Initialized">>, <<"Initialized", "Serving">>,
     <<"Serving", "ShuttingDown">>, <<"ShuttingDown", "Closed">>}

\* C7 as stated (SpecSession): the session state only moves along Uninitialized
\* -> Initialized -> Serving -> ShuttingDown -> Closed, Closed is final, and
\* Serving is only left because the stream was closed or failed.
C7_Original ==
    [][/\ session' # session => <<session, session'>> \in LifecycleEdges
       /\ session = "Closed" => session' = "Closed"
       /\ (session = "Serving" /\ session' # "Serving") => cause' \in {"closed", "fault"}
      ]_vars

\* C7 amended (SpecSession): the session state only moves along Uninitialized
\* -> Initialized -> Serving -> ShuttingDown -> Closed, Closed is final, and
\* Serving is only left because the stream was closed or failed or the host
\* interrupted the process; a call that ends in an error leaves it Serving.
C7_Lifecycle ==
    [][/\ session' # session => <<session, session'>> \in LifecycleEdges
       /\ session = "Closed" => session' = "Closed"
       /\ (session = "Serving" /\ session' # "Serving") =>
            cause' \in {"closed", "fault", "interrupt"}
       /\ (\E c \in lanes : calls[c].pc # "done" /\ calls'[c].pc = "done"
                             /\ calls'[c].excepted) => session' = "Serving"
      ]_vars

\* C7 witness: a session that answered a call with an error, went on, was
\* interrupted and is Closed.
C7_ClosedAfterInterrupt ==
    /\ session = "Closed"
    /\ cause = "interrupt"
    /\ \E i \in 1..Len(served) : served[i]

\* C8 (Spec): with no API key in the argument or in the environment (unset or
\* empty), the construction of the voice client raises the configuration error
\* before any client, store or bridge exists; serve() is left with it while the
\* session is Uninitialized, and the process prints it and exits with status 1.
C8_MissingKeyFatal ==
    (key_arg \in {None, Some("")} /\ key_env \in {None, Some("")} /\ pc # "client") =>
        /\ Exited
        /\ raised = Exc("ValueError", <<"ElevenLabs API key not provided">>)
        /\ objs = NoObjs
        /\ session = "Uninitialized"
        /\ pc = "exit" =>
            /\ exit_code # None
            /\ exit_code[1].code = 1
            /\ exit_code[1].printed = <<"Error running ElevenLabs MCP server: ",
                                        "ElevenLabs API key not provided">>

\* C8 witness: the process has exited with status 1 for want of a key.
C8_ExitedWithoutKey ==
    /\ pc = "exit"
    /\ key_arg = None /\ key_env \in {None, Some("")}
    /\ exit_code # None /\ exit_code[1].code = 1

C10_LastWriteWins ==
    (ops.upd # None /\ ops.upd[1].op = "create" /\ DictHas(ops.prior, ops.upd[1].name)) =>
        LET created == ops.upd[1]
            listed == ListProfiles(profiles)
        IN  /\ Cardinality({i \in 1..Len(listed) : listed[i] = created.name}) = 1
            /\ listed = ListProfiles(ops.prior)
            /\ \A m \in Names \ {created.name} :
                    GetProfile(profiles, m) = GetProfile(ops.prior, m)
            /\ (ops.read # None /\ ops.read[1].op = "get"
                    /\ ops.read[1].name = created.name) =>
                /\ ops.read[1].ret_profile # None
                /\ ops.read[1].ret_profile[1].voice_id = created.voice_id
                /\ ops.read[1].ret_profile[1].settings = created.settings
            /\ (ops.read # None /\ ops.read[1].op = "list") =>
                Cardinality({i \in 1..Len(ops.read[1].ret_names) :
                                ops.read[1].ret_names[i] = created.name}) = 1

\* C10 witness: a profile with settings was overwritten by another voice id and
\* empty settings, beside another profile, and read back.
C10_Overwritten ==
    /\ ops.upd # None /\ ops.upd[1].op = "create"
    /\ Len(ops.prior) = 2
    /\ DictHas(ops.prior, ops.upd[1].name)
    /\ GetProfile(ops.prior, ops.upd[1].name)[1].voice_id # ops.upd[1].voice_id
    /\ GetProfile(ops.prior, ops.upd[1].name)[1].settings # <<>>
    /\ ops.upd[1].settings = <<>>
    /\ ops.read # None /\ ops.read[1].op = "get" /\ ops.read[1].name = ops.upd[1].name

\* C11 (SpecStore): after delete_profile(n), get_profile(n) returns None and n
\* is not in list_profiles(), while every other profile is returned as it was
\* before the deletion; a name the store was not loaded with and that
\* create_profile was never given is absent from get_profile.
C11_Deleted ==
    /\ (ops.upd # None /\ ops.upd[1].op = "delete") =>
        LET n == ops.upd[1].name
            listed == ListProfiles(profiles)
        IN  /\ GetProfile(profiles, n) = None
            /\ \A i \in 1..Len(listed) : listed[i] # n
            /\ \A m \in Names \ {n} : GetProfile(profiles, m) = GetProfile(ops.prior, m)
            /\ (ops.read # None /\ ops.read[1].op = "get") =>
                    ops.read[1].ret_profile =
                        IF ops.read[1].name = n THEN None
                        ELSE GetProfile(ops.prior, ops.read[1].name)
            /\ (ops.read # None /\ ops.read[1].op = "list") =>
                    ops.read[1].ret_names =
                        SelectSeq(ListProfiles(ops.prior), LAMBDA m : m # n)
    /\ \A n \in Names \ ops.known :
        /\ GetProfile(profiles, n) = None
        /\ (ops.read # None /\ ops.read[1].op = "get" /\ ops.read[1].name = n) =>
                ops.read[1].ret_profile = None

\* C11 witness: one of two profiles was deleted, and the other one has been
\* read back since.
C11_OtherProfileKept ==
    /\ ops.upd # None /\ ops.upd[1].op = "delete"
    /\ Len(ops.prior) = 2 /\ DictHas(ops.prior, ops.upd[1].name)
    /\ ops.read # None /\ ops.read[1].op = "get" /\ ops.read[1].name # ops.upd[1].name
    /\ ops.read[1].ret_profile # None

\* the operations that have returned after a request that failed
Degraded(group) ==
    {i \in 1..Len(ops) : ops[i].op \in group /\ ops[i].resp.kind = "http_error"}

\* C12 (SpecClients): when its request ends with an httpx.HTTPError (an error
\* status, a transport failure, a timeout), get_voices and get_models return
\* the empty list and get_voice, generate_speech and get_user_info return None;
\* none of them raises, and the client is still open for the next operation.
C12_DegradedResults ==
    /\ \A i \in Degraded(ClientOps) :
        /\ ops[i].ret.ok
        /\ ops[i].ret.exc = None
        /\ ops[i].op \in {"get_voices", "get_models"} => ops[i].ret.val = <<>>
        /\ ops[i].op \in {"get_voice", "generate_speech", "get_user_info"} =>
                ops[i].ret.val = None
    /\ Degraded(ClientOps) # {} => objs.client = "open"

\* C12 witness: get_models timed out and returned, and the operation issued on
\* the same client after it got its data.
C12_UsableAfterTimeout ==
    /\ Len(ops) = 2
    /\ ops[1].op = "get_models" /\ ops[1].resp = Failed("ReadTimeout")
    /\ ops[2].op = "get_user_info" /\ ops[2].resp.kind = "ok"
    /\ ops[2].ret.ok /\ ops[2].ret.val # None

\* C13 (SpecClients): execute_voice_command and get_mia_status send one
\* request per invocation; when the request succeeds they return the JSON of the
\* response as it is, and when it ends with an httpx.HTTPError they return an
\* object whose only field is the error message, and do not raise.
C13_PassThrough ==
    /\ \A c \in lanes :
            (calls[c].pc = "await" /\ calls[c].op \in BridgeOps) =>
                /\ Len(calls[c].events) = 1
                /\ calls[c].events[1].to = "bridge"
    /\ \A i \in 1..Len(ops) :
            ops[i].op \in BridgeOps =>
                /\ ops[i].sent = 1
                /\ ops[i].resp.kind = "ok" =>
                        ops[i].ret.ok /\ ops[i].ret.val = ops[i].resp.json
                /\ ops[i].resp.kind = "http_error" =>
                        /\ ops[i].ret.ok
                        /\ DOMAIN ops[i].ret.val = {"error"}
                        /\ ops[i].ret.val.error =
                               (IF ops[i].op = "execute_voice_command"
                                THEN <<"Failed to execute command: ">>
                                ELSE <<"Failed to get status: ">>) \o BridgeHttpError

\* C13 witness: execute_voice_command could not connect and returned the
\* error object, and get_mia_status then returned the status it was sent.
C13_ErrorThenStatus ==
    /\ Len(ops) = 2
    /\ ops[1].op = "execute_voice_command" /\ ops[1].resp = Failed("ConnectError")
    /\ ops[1].ret.ok /\ "error" \in DOMAIN ops[1].ret.val
    /\ ops[2].op = "get_mia_status" /\ ops[2].resp.kind = "ok"
    /\ ops[2].ret.ok /\ "devices" \in DOMAIN ops[2].ret.val

\* C14 (SpecStore): create_profile raises nothing to its caller when the write
\* of the file fails (open() fails, or the write fails after the file was
\* truncated): the profile is in the dict, get_profile and list_profiles
\* return it, and so it is after earlier writes have failed as well.
C14_CreateSurvivesWriteFailure ==
    (ops.upd # None /\ ops.upd[1].op = "create") =>
        LET created == ops.upd[1]
        IN  /\ created.exc = None
            /\ (created.w # "ok" \/ ops.lost) =>
                /\ GetProfile(profiles, created.name) # None
                /\ GetProfile(profiles, created.name)[1].voice_id = created.voice_id
                /\ GetProfile(profiles, created.name)[1].settings = created.settings
                /\ (ops.read # None /\ ops.read[1].op = "get"
                        /\ ops.read[1].name = created.name) =>
                       ops.read[1].ret_profile = GetProfile(profiles, created.name)
                /\ (ops.read # None /\ ops.read[1].op = "list") =>
                       \E i \in 1..Len(ops.read[1].ret_names) :
                           ops.read[1].ret_names[i] = created.name

\* C14 witness: after a mutation whose write failed, a profile was created,
\* its write failed too, the file does not hold it, and it was read back.
C14_ReadBackUnsaved ==
    /\ ops.upd # None /\ ops.upd[1].op = "create" /\ ops.upd[1].w = "write_fails"
    /\ ops.lost
    /\ file = FileGarbage
    /\ ops.read # None /\ ops.read[1].op = "get" /\ ops.read[1].name = ops.upd[1].name
    /\ ops.read[1].ret_profile # None

\* what was in the way of the store when it was constructed
StorageInTheWay == ~dir_ok \/ file.kind \in {"garbage", "unreadable", "array"}

\* C15 (SpecOpen): constructing a VoiceProfileManager raises nothing whatever
\* it finds where its directory and its file should be, the store it gives is a
\* mapping, empty when the file was missing, malformed or unreadable, and
\* create_profile, get_profile, list_profiles and delete_profile raise nothing
\* on it.
C15_ConstructionNeverRaises ==
    pc # "store_new" =>
        /\ raised = None
        /\ objs.store = "built"
        /\ IsMapping(profiles)
        /\ (ops.count = 0 /\ (file.kind = "missing" \/ StorageInTheWay)) => profiles = <<>>
        /\ ops.upd # None => ops.upd[1].exc = None
        /\ ops.read # None => ops.read[1].exc = None

SpeechTools == {ToolCatalog[3], ToolCatalog[6]}

\* part in text
Contains(text, part) ==
    \E i \in 1..(Len(text) - Len(part) + 1) : SubSeq(text, i, i + Len(part) - 1) = part

\* the temporary file at a path holds the content
Holds(path, content) ==
    \E i \in 1..Len(tmpfiles) : tmpfiles[i].path = path /\ tmpfiles[i].content = content

FailureText(c) ==
    IF calls[c].tool = ToolCatalog[3] THEN <<"Failed to generate speech">>
    ELSE <<"Failed to generate speech from profile">>

\* the calls of the two speech tools whose generate_speech has returned
Heard(c) == Active(c) /\ calls[c].tool \in SpeechTools /\ calls[c].audio # <<>>

\* C16 as stated (SpecSession): whenever generate_speech returned bytes (a
\* result that is not None) to one of the two speech tools, the bytes are in a
\* new temporary file and the result holds its path and the input text and not
\* the bytes; when it returned None, the call made no file and the result is
\* the failure text.
C16_Original ==
    \A c \in lanes :
        Heard(c) =>
            LET audio_data == calls[c].audio[1]
            IN  /\ audio_data # None =>
                    /\ Done(c)
                    /\ calls[c].path # None
                    /\ Holds(calls[c].path[1], audio_data[1])
                    /\ Contains(ResultText(c), calls[c].path[1])
                    /\ Contains(ResultText(c), calls[c].text)
                    /\ ~Mentions(ResultText(c), audio_data[1])
                /\ audio_data = None =>
                    /\ calls[c].path = None
                    /\ ResultText(c) = FailureText(c)

\* C16 amended (SpecSession): whenever generate_speech returned bytes that are
\* not empty to one of the two speech tools, the bytes are written to a new
\* temporary file (no two files share a path); when the file was made and
\* written, the result holds its path and the input text, and when it could
\* not be made or written, the result is the "Error executing" text; the bytes
\* are never in the result.  When generate_speech returned None or empty bytes,
\* the call made no file and the result is the failure text.
C16_AudioSaved ==
    /\ \A i, j \in 1..Len(tmpfiles) : tmpfiles[i].path = tmpfiles[j].path => i = j
    /\ \A c \in lanes :
        Heard(c) =>
            LET audio_data == calls[c].audio[1]
                audible == audio_data # None /\ audio_data[1] # ""
            IN  /\ Done(c)
                /\ (audible /\ ~calls[c].excepted) =>
                    /\ calls[c].path # None
                    /\ Holds(calls[c].path[1], audio_data[1])
                    /\ Contains(ResultText(c), calls[c].path[1])
                    /\ Contains(ResultText(c), calls[c].text)
                /\ (audible /\ calls[c].excepted) =>
                    /\ ResultText(c)[1] = "Error executing "
                    /\ ~Contains(ResultText(c), TempPath(Len(tmpfiles)))
                /\ audible => ~Mentions(ResultText(c), audio_data[1])
                /\ ~audible =>
                    /\ calls[c].path = None
                    /\ ~calls[c].excepted
                    /\ ResultText(c) = FailureText(c)

\* C16 witness: the speech of a profile was saved to the second temporary file
\* of the session.
C16_SecondFileSaved ==
    \E c \in lanes :
        /\ Done(c) /\ calls[c].tool = ToolCatalog[6] /\ ~calls[c].excepted
        /\ calls[c].path = Some(TempPath(2))
        /\ Holds(TempPath(2), AudioBytes) /\ Holds(TempPath(1), AudioBytes)

ListedNames(tools) == {tools[i].name : i \in 1..Len(tools)}

UnknownToolText(name) == <<"Error executing ", name, ": ", "Unknown tool: ", name>>

Valid(c) ==
    /\ Active(c)
    /\ Route(calls[c].tool) # 0
    /\ Schemas[Route(calls[c].tool)].required \subseteq DOMAIN calls[c].arguments
    /\ DOMAIN calls[c].arguments \subseteq Schemas[Route(calls[c].tool)].properties

Waiting(c) == calls[c].pc \notin {"idle", "done", "raised", "cancelled"}

DefaultSettings == MkSettings(DefaultStability, DefaultSimilarityBoost)

\* the generate_speech operations that have sent their request
Posting == {c \in lanes : calls[c].pc = "await" /\ calls[c].op = "generate_speech"}

\* the elevenlabs_generate_speech arguments that hold text and voice_id
SpeechArguments ==
    {a \in GenerateSpeechArguments : {"text", "voice_id"} \subseteq DOMAIN a}

\* the elevenlabs_create_voice_profile arguments that hold name and voice_id
ProfileArguments ==
    {a \in CreateProfileArguments : {"name", "voice_id"} \subseteq DOMAIN a}

\* what the two tools make of their arguments: the request of
\* elevenlabs_generate_speech carries the text, the voice id, and the model id,
\* the stability and the similarity_boost of the arguments, each at its default
\* when it is left out; elevenlabs_create_voice_profile stores the stability and
\* the similarity_boost of the arguments, each at its default when it is left out
ToolDefaults ==
    /\ \A a \in SpeechArguments :
        LET request == EnterGenerateSpeech(ToolCatalog[3], a).events[1]
        IN  /\ request.path = <<"/v1/text-to-speech/", a.voice_id>>
            /\ request.body[1].text = <<a.text>>
            /\ request.body[1].model_id =
                    (IF "model_id" \in DOMAIN a THEN a.model_id ELSE DefaultModel)
            /\ request.body[1].voice_settings.stability =
                    (IF "stability" \in DOMAIN a THEN a.stability ELSE DefaultStability)
            /\ request.body[1].voice_settings.similarity_boost =
                    (IF "similarity_boost" \in DOMAIN a THEN a.similarity_boost
                     ELSE DefaultSimilarityBoost)
    /\ \A a \in ProfileArguments :
        LET stored == GetProfile(EnterCreateVoiceProfile(ToolCatalog[4], a, <<>>,
                                     FileMissing, 1, "ok").profiles, a.name)[1]
        IN  /\ stored.voice_id = a.voice_id
            /\ stored.settings.stability =
                    (IF "stability" \in DOMAIN a THEN a.stability ELSE DefaultStability)
            /\ stored.settings.similarity_boost =
                    (IF "similarity_boost" \in DOMAIN a THEN a.similarity_boost
                     ELSE DefaultSimilarityBoost)

\* C19 as stated (SpecClients): generate_speech posts to the path of its voice
\* id a body with its text, its model id and its settings, the default model id
\* exactly when no model id was passed and the default settings exactly when no
\* settings were passed; the two tools apply the same defaults to what their
\* arguments leave out.
C19_Original ==
    /\ \A c \in Posting :
        LET text == calls[c].arguments[1]
            voice_id == calls[c].arguments[2]
            model_id == calls[c].arguments[3]
            voice_settings == calls[c].arguments[4]
            request == calls[c].events[1]
        IN  /\ request.method = "POST"
            /\ request.path = <<"/v1/text-to-speech/", voice_id>>
            /\ request.body[1].text = <<text>>
            /\ request.body[1].model_id =
                    (IF model_id = None THEN DefaultModel ELSE model_id[1])
            /\ request.body[1].voice_settings =
                    (IF voice_settings = None THEN DefaultSettings ELSE voice_settings[1])
    /\ ToolDefaults

\* C19 amended (SpecClients): generate_speech posts to the path of its voice id
\* a body with its text, its model id and its settings, the default model id
\* exactly when no model id was passed, and the default settings exactly when
\* no settings were passed or the settings passed are empty; the two tools
\* apply the same defaults to what their arguments leave out.
C19_RequestCarriesArguments ==
    /\ \A c \in Posting :
        LET text == calls[c].arguments[1]
            voice_id == calls[c].arguments[2]
            model_id == calls[c].arguments[3]
            voice_settings == calls[c].arguments[4]
            request == calls[c].events[1]
        IN  /\ request.method = "POST"
            /\ request.path = <<"/v1/text-to-speech/", voice_id>>
            /\ request.body[1].text = <<text>>
            /\ request.body[1].model_id =
                    (IF model_id = None THEN DefaultModel ELSE model_id[1])
            /\ request.body[1].voice_settings =
                    (IF voice_settings = None \/ voice_settings[1] = <<>>
                     THEN DefaultSettings ELSE voice_settings[1])
    /\ ToolDefaults

\* C19 witness: a generate_speech that was passed a model id and settings has
\* sent its request, after another generate_speech has returned.
C19_SuppliedAfterDefaults ==
    /\ Len(ops) = 1 /\ ops[1].op = "generate_speech"
    /\ \E c \in Posting :
        /\ calls[c].arguments[3] = Some(OtherModel)
        /\ calls[c].arguments[4] = Some(MkSettings(7, 8))
        /\ calls[c].events[1].body[1].model_id = OtherModel
        /\ calls[c].events[1].body[1].voice_settings = MkSettings(7, 8)

\* every write of the file so far has succeeded
AllSaved == ~ops.lost /\ (ops.upd # None => ops.upd[1].w = "ok")

\* the latest operation changed the dict
Mutated ==
    /\ ops.upd # None
    /\ ops.upd[1].op = "create" \/ DictHas(ops.prior, ops.upd[1].name)

\* C20 (SpecStore): while the writes of create_profile and delete_profile
\* succeed, the file holds the whole dict after every operation that changed
\* it, and a VoiceProfileManager constructed on the file holds what this one
\* holds: the same list_profiles() and the same get_profile(n) for every n.
C20_FileTracksMemory ==
    AllSaved =>
        LET reopened == LoadProfiles(file)
        IN  /\ Mutated => file = JsonDump(profiles)
            /\ file.kind = "json" => file = JsonDump(profiles)
            /\ ListProfiles(reopened) = ListProfiles(profiles)
            /\ \A n \in Names : GetProfile(reopened, n) = GetProfile(profiles, n)

\* C20 witness: a profile was created beside another and the first one deleted,
\* both writes succeeded, and the file holds the one that is left.
C20_SavedAfterCreateAndDelete ==
    /\ AllSaved /\ ops.count = 2
    /\ ops.upd[1].op = "delete" /\ Len(ops.prior) = 2
    /\ ops.prior[1][1] = ops.upd[1].name
    /\ Len(profiles) = 1
    /\ file = JsonDump(profiles)

\* the lookups of call c that found a profile
Resolved(c) ==
    {i \in EventsTo(c, "store") :
        calls[c].events[i].method = "get_profile" /\ calls[c].events[i].body # None}

\* the settings a create call with these arguments stores
SettingsOf(arguments) ==
    MkSettings(Get(arguments, "stability", DefaultStability),
               Get(arguments, "similarity_boost", DefaultSimilarityBoost))

\* the profiles that one create call of SpecPipelined, or the file, gives
WholeProfiles ==
    {<<SeedProfile.voice_id, SeedProfile.settings>>} \cup
    {<<arguments.voice_id, SettingsOf(arguments)>> : arguments \in OverwriteArguments}

Whole(profile) == <<profile.voice_id, profile.settings>> \in WholeProfiles

\* the step of lane c is a whole create call, entered and returned without
\* an await, that left its one profile in the map
WholeCreate(c) ==
    /\ calls[c].pc = "idle"
    /\ calls'[c].pc = "done"
    /\ calls'[c].tool = ToolCatalog[4]
    /\ ~calls'[c].excepted
    /\ \A o \in lanes \ {c} : calls'[o] = calls[o]
    /\ LET arguments == calls'[c].arguments
           written == DictGet(profiles', arguments.name)
       IN  /\ written # None
           /\ written[1].voice_id = arguments.voice_id
           /\ written[1].settings = SettingsOf(arguments)
           /\ \A n \in Names \ {arguments.name} :
                DictGet(profiles', n) = DictGet(profiles, n)

\* C21 (SpecPipelined): with calls interleaved at their awaits, the profile
\* map changes only in a step that is one whole create call (no await inside
\* it), and what it writes is that call's voice id and settings together; so
\* every profile in the map and every profile a lookup returned is the pair of
\* one create (or of the file), never the voice id of one with the settings of
\* another; and the synthesis request of a call is made of the voice id and
\* the settings of the profile its own lookup returned, whatever other calls
\* write under that name while it waits.
C21_NoTornProfile ==
    /\ [](/\ \A i \in 1..Len(profiles) : Whole(profiles[i][2])
          /\ \A c \in lanes : Active(c) =>
                /\ \A i \in Resolved(c) : Whole(calls[c].events[i].body[1])
                /\ \A i \in EventsTo(c, "voice") :
                     /\ (i - 1) \in Resolved(c)
                     /\ calls[c].events[i] =
                          SpeechRequest(calls[c].text,
                                        calls[c].events[i - 1].body[1].voice_id,
                                        DefaultModel,
                                        Some(calls[c].events[i - 1].body[1].settings)))
    /\ [][profiles' # profiles => \E c \in lanes : WholeCreate(c)]_vars

\* C21 witness: a call waits on its synthesis request, sent with the profile
\* it resolved, while the create call of the other lane has put another voice
\* id and other settings under the same name.
C21_OverwrittenWhileWaiting ==
    \E c \in lanes, o \in lanes :
        /\ c # o
        /\ calls[c].pc = "await_speech"
        /\ Resolved(c) # {}
        /\ Done(o) /\ calls[o].tool = ToolCatalog[4] /\ ~calls[o].excepted
        /\ calls[o].arguments.name = calls[c].subject
        /\ \A i \in Resolved(c) :
             /\ GetProfile(profiles, calls[c].subject) # calls[c].events[i].body
             /\ GetProfile(profiles, calls[c].subject)[1].voice_id #
                  calls[c].events[i].body[1].voice_id
             /\ calls[c].events[i + 1].path =
                  <<"/v1/text-to-speech/", calls[c].events[i].body[1].voice_id>>

\* C22 (SpecStore): get_profile and list_profiles leave the dict and the file
\* as they are, and so does delete_profile of a name the dict does not hold:
\* it does not write the file, whatever state the file is in.
C22_ReadsChangeNothing ==
    [][/\ ops'.count = ops.count => (profiles' = profiles /\ file' = file)
       /\ (/\ ops'.count # ops.count
           /\ ops'.upd[1].op = "delete"
           /\ ~DictHas(profiles, ops'.upd[1].name)) =>
                (profiles' = profiles /\ file' = file)]_vars

\* C22 witness: a profile was created with a write that failed, then a name
\* the store does not hold was deleted and a profile read: the dict is as the
\* create left it and the file still is what the failed write left.
C22_AbsentDeletedThenRead ==
    /\ ops.count = 2
    /\ ops.upd[1].op = "delete"
    /\ ~DictHas(ops.prior, ops.upd[1].name)
    /\ Len(ops.prior) = 1
    /\ profiles = ops.prior
    /\ file.kind # "json"
    /\ ops.read # None /\ ops.read[1].op = "get" /\ ops.read[1].ret_profile # None

SuccessSentence == ". Command completed successfully."

\* the calls of mia_voice_command that were given a command
Commanded(c) ==
    /\ Active(c) /\ calls[c].tool = ToolCatalog[7]
    /\ "command" \in DOMAIN calls[c].arguments

\* generate_speech returned to call c without audio: None or empty bytes
Unvoiced(c) ==
    calls[c].audio # <<>> /\ (calls[c].audio[1] = None \/ calls[c].audio[1] = Some(""))

\* what lines 338-342 make of the command and of the bridge's result
Narration(c) ==
    <<"Voice command executed: ", calls[c].arguments.command>> \o
    (IF "error" \notin DOMAIN calls[c].reply[1]
     THEN <<SuccessSentence>>
     ELSE <<". Error: ">> \o calls[c].reply[1].error)

\* C23 as stated (SpecSession): once the bridge has returned its result to
\* mia_voice_command, the result of the call names the command; it holds the
\* success sentence exactly when the bridge's result has no error field and
\* the bridge's error message otherwise; and a call whose profile is missing
\* or whose synthesis gave no audio does not end in the error result.
C23_Original ==
    \A c \in lanes :
        (Commanded(c) /\ Done(c) /\ calls[c].reply # None) =>
            /\ Mentions(ResultText(c), calls[c].arguments.command)
            /\ Mentions(ResultText(c), SuccessSentence) <=>
                    "error" \notin DOMAIN calls[c].reply[1]
            /\ "error" \in DOMAIN calls[c].reply[1] =>
                    Contains(ResultText(c), calls[c].reply[1].error)
            /\ (MissedLookups(c) # {} \/ Unvoiced(c)) => ~calls[c].excepted

\* C23 amended (SpecSession): a mia_voice_command call whose handling raises
\* nothing ends with the narration: the command, then the success sentence
\* exactly when the bridge's result has no error field and the bridge's error
\* message otherwise, then the path of the audio file when one was saved.  A
\* missing profile, and a synthesis that returns no audio, leave the path out
\* and nothing else.  The call ends with the error text that names the tool
\* (and neither command nor sentence) when its handling raises: the command
\* argument is missing, the bridge's response cannot be decoded, the synthesis
\* request raises what generate_speech does not catch, or the audio file
\* cannot be made or written.
C23_Narration ==
    \A c \in lanes :
        (Active(c) /\ calls[c].tool = ToolCatalog[7] /\ Done(c)) =>
            /\ ~calls[c].excepted =>
                /\ Commanded(c) /\ calls[c].reply # None
                /\ Mentions(ResultText(c), calls[c].arguments.command)
                /\ Mentions(ResultText(c), SuccessSentence) <=>
                        "error" \notin DOMAIN calls[c].reply[1]
                /\ "error" \in DOMAIN calls[c].reply[1] =>
                        Contains(ResultText(c), calls[c].reply[1].error)
                /\ ResultText(c) =
                        IF calls[c].path = None THEN Narration(c)
                        ELSE Narration(c) \o <<"\nVoice response saved to: ">> \o
                             calls[c].path[1]
                /\ calls[c].path # None <=>
                        (calls[c].audio # <<>> /\ ~Unvoiced(c))
            /\ calls[c].excepted =>
                /\ SubSeq(ResultText(c), 1, 3) =
                        <<"Error executing ", ToolCatalog[7], ": ">>
                /\ ~Mentions(ResultText(c), SuccessSentence)
                /\ \/ ~Commanded(c)
                   \/ calls[c].reply = None
                   \/ EventsTo(c, "voice") # {} /\ ~Unvoiced(c)
            /\ (MissedLookups(c) # {} \/ Unvoiced(c)) =>
                /\ ~calls[c].excepted
                /\ calls[c].path = None
                /\ ResultText(c) = Narration(c)

\* C23 witness: the bridge answered a command with an error, the profile was
\* found and the synthesis gave no audio: the result is the narration with the
\* bridge's error message and without a path.
C23_ErrorNarratedWithoutAudio ==
    \E c \in lanes :
        /\ Commanded(c) /\ Done(c) /\ ~calls[c].excepted
        /\ "error" \in DOMAIN calls[c].reply[1]
        /\ Resolved(c) # {} /\ Unvoiced(c)
        /\ ResultText(c) = Narration(c)

\* C24 (SpecSession): a call that ends in the except clause of call_tool
\* returns 'Error executing <tool>: <message>' with the tool name of the
\* request, for every tool and wherever its handling raised.  It does not hold
\* of elevenlabs_create_voice_profile: line 265 assigns the profile name to
\* `name`, and what raises after it (line 266 on a missing voice_id) is
\* reported under the profile name.
C24_ErrorNamesRequestedTool ==
    \A c \in lanes :
        (Done(c) /\ calls[c].excepted) =>
            /\ SubSeq(ResultText(c), 1, 3) = <<"Error executing ", calls[c].tool, ": ">>
            /\ calls[c].name = calls[c].tool

\* the step is a create_voice_profile call that returned its success text
CreateReturned(c) ==
    /\ calls[c].pc = "idle"
    /\ calls'[c].pc = "done"
    /\ calls'[c].tool = ToolCatalog[4]
    /\ ~calls'[c].excepted

\* C25 (SpecSession): within a session no profile name leaves the map; the
\* map and the file change only in the step of an elevenlabs_create_voice_profile
\* call that returns its success text, and that step adds or overwrites the one
\* entry named in its arguments and leaves every other entry as it was.  So a
\* call of any other tool, an unknown tool, list_tools, and a call that ends in
\* the error result leave the map and the file unchanged.
C25_StoreOnlyGrows ==
    [][/\ \A n \in Names : DictHas(profiles, n) => DictHas(profiles', n)
       /\ Len(profiles') <= Len(profiles) + 1
       /\ (profiles' # profiles \/ file' # file) =>
            \E c \in lanes :
                /\ CreateReturned(c)
                /\ DictHas(profiles', calls'[c].arguments.name)
                /\ \A n \in Names \ {calls'[c].arguments.name} :
                     DictGet(profiles', n) = DictGet(profiles, n)]_vars

\* C25 witness: after a call that ended in the error result, a create call has
\* added a second profile to the one the session started with.
C25_SecondProfileAdded ==
    /\ Len(served) = 1 /\ served[1]
    /\ Len(profiles) = 2
    /\ \E c \in lanes :
        /\ Done(c) /\ calls[c].tool = ToolCatalog[4] /\ ~calls[c].excepted
        /\ profiles[2][1] = calls[c].arguments.name

\* the step is the return of generate_speech to call c, with audio that is
\* not empty
Synthesized(c) ==
    /\ calls[c].pc = "await_speech"
    /\ calls'[c].pc = "done"
    /\ calls'[c].audio # <<>>
    /\ calls'[c].audio[1] # None
    /\ calls'[c].audio[1] # Some("")

\* the files of before the step are all there after it, as they were
FilesKept == SubSeq(tmpfiles', 1, Len(tmpfiles)) = tmpfiles

\* the step made one file, at a path none of the earlier files has
OneNewFile ==
    /\ Len(tmpfiles') = Len(tmpfiles) + 1
    /\ \A i \in 1..Len(tmpfiles) : tmpfiles[i].path # tmpfiles'[Len(tmpfiles')].path

\* C26 as stated (SpecSession): no step of the session, shutdown included,
\* removes or rewrites a temporary file, and a file is made exactly in the
\* steps in which a synthesis returned audio, one per synthesis and at a path
\* that no earlier file has: the files are as many as the syntheses.
C26_Original ==
    [][/\ FilesKept
       /\ (\E c \in lanes : Synthesized(c)) <=> OneNewFile
       /\ Len(tmpfiles') # Len(tmpfiles) => OneNewFile]_vars

\* C26 amended (SpecSession): no step of the session, shutdown included,
\* removes or rewrites a temporary file.  A file is only made in the step in
\* which a synthesis returned audio to one of the four tools, one file at a
\* path that no earlier file has.  When the file was written the call returns
\* its path and the file holds the audio; when the write failed the file is
\* left behind and the call returns the error text; when the file could not
\* be created there is none.  So the files are as many as the results that
\* gave a path plus the files whose write failed.
C26_FilesKept ==
    [][/\ FilesKept
       /\ Len(tmpfiles') # Len(tmpfiles) => OneNewFile
       /\ \A c \in lanes :
            Synthesized(c) =>
                /\ calls'[c].tool \in SpeechTools \cup MiaTools
                /\ calls'[c].path # None <=> OneNewFile
                /\ calls'[c].path # None =>
                    /\ tmpfiles'[Len(tmpfiles')].path = calls'[c].path[1]
                    /\ ~calls'[c].excepted <=>
                            tmpfiles'[Len(tmpfiles')].content = calls'[c].audio[1][1]
                    /\ ~calls'[c].excepted <=>
                            Contains(calls'[c].result[1].text, calls'[c].path[1])
                /\ calls'[c].path = None => calls'[c].excepted
       /\ OneNewFile => \E c \in lanes : Synthesized(c)]_vars

\* C26 witness: the process has exited after two syntheses, of a speech tool
\* and of a MIA tool or of two calls of one tool, and both files are there
\* with their audio at two paths.
C26_TwoFilesAfterExit ==
    /\ pc = "exit"
    /\ session = "Closed"
    /\ Len(tmpfiles) = 2
    /\ tmpfiles[1].path # tmpfiles[2].path
    /\ tmpfiles[1].content = AudioBytes /\ tmpfiles[2].content = AudioBytes

====
